---- MODULE Spec2Model ----
(***************************************************************************)
(* The incident store of OpsMindAI (IncidentDatabaseTool): a class-level   *)
(* in-memory dict of incident records, mirrored in a JSON file that is     *)
(* loaded when the dict is empty and rewritten after each mutation.        *)
(*                                                                         *)
(* Python values: a str is a sequence of one-character strings, None is    *)
(* the one-element sequence <<"None">> (no character is "None").           *)
(* Time is counted in microseconds from a base instant at which the wall   *)
(* clock shows a whole second and the epoch millisecond count is taken as  *)
(* 0; datetime.now() and time.time() both read the variable now.           *)
(***************************************************************************)
EXTENDS Integers, Sequences, FiniteSets, TLC

VARIABLES
    store,   \* IncidentDatabaseTool._incident_store: entries in insertion order
    file,    \* the mirror file incidents_database.json
    now,     \* the wall clock, in microseconds
    last,    \* the last call of _run and what it returned
    prev,    \* the call before the last one: its op, req, success and key
    steps,   \* number of calls and restarts so far
    pc,      \* main.py: where each thread that runs the pipeline stands
    lock,    \* main.py: crew_lock, "free" or the thread that holds it
    log,     \* main.py: the tool calls made so far, with the thread of each
    other,   \* _incident_store of a second process, while it is not running
    cur,     \* which of two processes sharing the mirror file is running
    saving,  \* how far each of the two is into the _save_to_file of its call
    gh,      \* GitHubPRCreatorTool._make_api_request: one call of it
    pr,      \* GitHubPRCreatorTool._run: one pull-request flow
    pdf,     \* PDFGeneratorTool._run: the report files and the last request
    call     \* a tool without state of its own: its last call and the one before

toolVars == <<store, file, now, last, prev, steps>>

runVars == <<pc, lock, log>>

procVars == <<other, cur, saving>>

restVars == <<gh, pr, pdf, call>>

vars ==
    <<store, file, now, last, prev, steps, pc, lock, log, other, cur, saving,
      gh, pr, pdf, call>>

\* ---------------------------------------------------------------- bounds

MaxSteps == 3

\* The tool calls all pipeline runs of one process make together
MaxRunOps == 2

\* The tool calls two processes sharing the mirror file make together
MaxSharedOps == 2

\* The largest max_retries a call of _make_api_request is given
MaxRetries == 3

\* The largest number of entries of file_changes in one call of the PR tool
MaxFiles == 2

\* The report requests made of the PDF tool
MaxReports == 3

\* The most things the patterns of the log analyzer find in one log
MaxFeatures == 4

\* The instants at which the clock is sampled: two in the same millisecond,
\* one a whole second later.
TimePoints == {0, 1, 1000000}

\* ------------------------------------------------------- Python values

None == <<"None">>

\* Python truthiness of an Optional[str]: None and "" are falsy.
Falsy(v) == v = None \/ v = <<>>

Or(v, default) == IF Falsy(v) THEN default ELSE v

\* A lone surrogate, which the utf-8 codec of the mirror file cannot encode.
Surrogate == "\\ud800"

Digits == <<"0", "1", "2", "3", "4", "5", "6", "7", "8", "9">>

IsAsciiDigit(c) == \E i \in 1..10 : Digits[i] = c

\* Decimal digits of other scripts: ARABIC-INDIC DIGIT THREE and FULLWIDTH
\* DIGIT ONE, each one character.
UnicodeDigits == {"\\u0663", "\\uff11"}

\* \d of a str pattern: every Unicode decimal digit
IsDigit(c) == IsAsciiDigit(c) \/ c \in UnicodeDigits

RECURSIVE Decimal(_)
\* str(n) for n >= 0
Decimal(n) == IF n < 10 THEN <<Digits[n + 1]>>
              ELSE Decimal(n \div 10) \o <<Digits[(n % 10) + 1]>>

RECURSIVE ZeroPad(_, _)
\* n in decimal, zero-padded on the left to width w
ZeroPad(n, w) == IF w = 0 THEN <<>>
                 ELSE ZeroPad(n \div 10, w - 1) \o <<Digits[(n % 10) + 1]>>

UsPerSec == 1000000
MsPerSec == 1000

\* datetime.isoformat(): the fixed-width date and time down to the second
\* (the date, hour and minute are the same for every sampled instant and are
\* rendered as "T"), then ".ffffff" unless the microsecond is 0.
IsoFormat(t) ==
    <<"T">> \o ZeroPad(t \div UsPerSec, 2) \o
    (IF t % UsPerSec = 0 THEN <<>> ELSE <<".">> \o ZeroPad(t % UsPerSec, 6))

INC == <<"I", "N", "C", "-">>

\* _generate_incident_id: f"INC-{int(time.time() * 1000)}"
GenerateIncidentId(t) == INC \o Decimal((t * MsPerSec) \div UsPerSec)

\* re.match(r'^INC-\d+$', s): "INC-", one or more digits, then the end of the
\* string or a single newline that ends it.
MatchesIdFormat(s) ==
    LET n == Len(s)
        m == IF n > 0 /\ s[n] = "\n" THEN n - 1 ELSE n
    IN  /\ m >= 5
        /\ SubSeq(s, 1, 4) = INC
        /\ \A i \in 5..m : IsDigit(s[i])

\* ------------------------------------------------------ dict operations

\* A key list that is always empty
KeysNone(m) == <<>>

\* The dict _incident_store is a sequence of entries [key, rec] in insertion
\* order, without two entries of the same key.
Keys(m) == [i \in 1..Len(m) |-> m[i].key]

Has(m, k) == \E i \in 1..Len(m) : m[i].key = k

IndexOf(m, k) == CHOOSE i \in 1..Len(m) : m[i].key = k

\* m[k]
Get(m, k) == m[IndexOf(m, k)].rec

\* m[k] = r: an existing key keeps its position
Put(m, k, r) ==
    IF Has(m, k) THEN [m EXCEPT ![IndexOf(m, k)].rec = r]
    ELSE Append(m, [key |-> k, rec |-> r])

\* A pop that removes nothing
PopKeepsEntry(m, k) == m

\* m.pop(k), the remaining dict
Pop(m, k) ==
    LET i == IndexOf(m, k)
    IN  SubSeq(m, 1, i - 1) \o SubSeq(m, i + 1, Len(m))

RECURSIVE DictUpdate(_, _)
\* m.update(d)
DictUpdate(m, d) ==
    IF d = <<>> THEN m
    ELSE DictUpdate(Put(m, Head(d).key, Head(d).rec), Tail(d))

\* ------------------------------------------------------ the mirror file

Fields == {"incident_id", "service_name", "severity", "status", "timestamp",
           "commander", "communication_lead", "playbook_applied", "timeline",
           "resolution_details", "created_at", "last_updated"}

\* json.dump of one value: None is written as null, a str as a JSON string.
ToJson(v) == IF v = None THEN [t |-> "null", v |-> <<>>]
             ELSE [t |-> "string", v |-> v]

\* json.load of one value
FromJson(j) == IF j.t = "null" THEN None ELSE j.v

\* The utf-8 encoder of the file raises on a lone surrogate.
Encodable(v) == \A i \in 1..Len(v) : v[i] # Surrogate

DictEncodable(m) ==
    \A i \in 1..Len(m) :
        /\ Encodable(m[i].key)
        /\ \A f \in Fields : Encodable(m[i].rec[f])

\* What is at the path: kind says whether json.load reads it, doc is the
\* document it reads, size the bytes of the file, and blanks how many of its
\* last bytes are spaces and newlines.
NoFile == [kind |-> "missing", doc |-> <<>>, size |-> 0, blanks |-> 0]

\* open(path, 'w'): the file exists and has no bytes.
EmptyFile == [kind |-> "corrupt", doc |-> <<>>, size |-> 0, blanks |-> 0]

\* The JSON document json.dump writes for the dict m.
JsonDoc(m) ==
    [i \in 1..Len(m) |->
        [key |-> m[i].key, obj |-> [f \in Fields |-> ToJson(m[i].rec[f])]]]

\* The dict json.load builds from a JSON document.
ParseDoc(d) ==
    [i \in 1..Len(d) |->
        [key |-> d[i].key, rec |-> [f \in Fields |-> FromJson(d[i].obj[f])]]]

\* The keys of incident_record in the order _create_incident builds it, which
\* is the order json.dump writes them in.
FieldOrder ==
    <<"incident_id", "service_name", "severity", "status", "timestamp",
      "commander", "communication_lead", "playbook_applied", "timeline",
      "resolution_details", "created_at", "last_updated">>

RECURSIVE StrBytes(_)
\* The bytes of a str inside a JSON string with ensure_ascii=False, in utf-8:
\* a newline is written as backslash and n, ARABIC-INDIC DIGIT THREE takes 2
\* bytes and FULLWIDTH DIGIT ONE 3; "T" is the 17 characters of the date,
\* hour and minute (see IsoFormat).
StrBytes(v) ==
    IF v = <<>> THEN 0
    ELSE (CASE Head(v) = "\n" -> 2
            [] Head(v) = "\\u0663" -> 2
            [] Head(v) = "\\uff11" -> 3
            [] Head(v) = "T" -> 17
            [] OTHER -> 1) + StrBytes(Tail(v))

\* The bytes of one value: null, or a str in its quotes.
ValueBytes(v) == IF v = None THEN 4 ELSE 2 + StrBytes(v)

RECURSIVE FieldsWritten(_, _)
\* json.dump with indent=2 on the fields of record r from the i-th on: n is
\* the bytes written, ok whether all were. Each field is '"name": value' and
\* follows the previous one after a comma, a newline and four spaces; the
\* dump stops (the write raises) at a value the file cannot encode, behind
\* the name and ': '.
FieldsWritten(r, i) ==
    IF i > Len(FieldOrder) THEN [n |-> 0, ok |-> TRUE]
    ELSE LET f == FieldOrder[i]
             name == (IF i = 1 THEN 0 ELSE 6) + Len(f) + 4
             rest == FieldsWritten(r, i + 1)
         IN  IF ~Encodable(r[f]) THEN [n |-> name, ok |-> FALSE]
             ELSE [n |-> name + ValueBytes(r[f]) + rest.n, ok |-> rest.ok]

RECURSIVE EntriesWritten(_, _)
\* The same for the entries of the dict m from the i-th on. An entry is
\* '"key": {', a newline and four spaces, the fields, a newline, two spaces
\* and '}'; entries are separated by a comma, a newline and two spaces.
\* blanks is how many of the last bytes written are spaces and newlines: 3
\* when the dump stops at a key, 1 when it stops at a value.
EntriesWritten(m, i) ==
    IF i > Len(m) THEN [n |-> 0, ok |-> TRUE, blanks |-> 0]
    ELSE LET sep == IF i = 1 THEN 3 ELSE 4
             head == sep + 2 + StrBytes(m[i].key) + 8
             fw == FieldsWritten(m[i].rec, 1)
             rest == EntriesWritten(m, i + 1)
         IN  IF ~Encodable(m[i].key)
             THEN [n |-> sep, ok |-> FALSE, blanks |-> 3]
             ELSE IF ~fw.ok
             THEN [n |-> head + fw.n, ok |-> FALSE, blanks |-> 1]
             ELSE [n |-> head + fw.n + 4 + rest.n, ok |-> rest.ok,
                   blanks |-> rest.blanks]

\* json.dump(m, f, indent=2, ensure_ascii=False) from the start of a file:
\* '{}' for the empty dict, else '{', the entries, a newline and '}'.
Written(m) ==
    IF m = <<>> THEN [n |-> 2, ok |-> TRUE, blanks |-> 0]
    ELSE LET e == EntriesWritten(m, 1)
         IN  [n |-> 1 + e.n + (IF e.ok THEN 2 ELSE 0), ok |-> e.ok,
              blanks |-> e.blanks]

\* _save_to_file: the file is truncated and the whole dict written; an
\* exception while writing is caught and printed, and leaves the partly
\* written file behind.
SaveToFile(m) ==
    LET w == Written(m)
    IN  IF DictEncodable(m)
        THEN [kind |-> "json", doc |-> JsonDoc(m), size |-> w.n, blanks |-> 0]
        ELSE [kind |-> "corrupt", doc |-> <<>>, size |-> w.n,
              blanks |-> w.blanks]

\* json.dump of m through a handle opened before the content f was written
\* by another handle: the bytes go to the start of the file and what f has
\* behind them stays. The file is the document of m where nothing stays or
\* only spaces and newlines do; where more stays, json.load finds extra data
\* behind the document. (A dump of m that stops part way, in front of bytes
\* that stay, is not among the writes of the processes here: their dicts
\* hold no string the file cannot encode.)
WriteOver(f, m) ==
    LET out == SaveToFile(m)
        rest == f.size - out.size
    IN  IF rest <= 0 THEN out
        ELSE IF out.kind = "json" /\ rest <= f.blanks
        THEN [out EXCEPT !.size = f.size, !.blanks = rest]
        ELSE [kind |-> "corrupt", doc |-> <<>>, size |-> f.size,
              blanks |-> IF rest <= f.blanks THEN rest + out.blanks
                         ELSE f.blanks]

\* _load_from_file: a missing file and a read error leave the dict as it is.
LoadFromFile(m, f) ==
    IF f.kind = "json" THEN DictUpdate(m, ParseDoc(f.doc)) ELSE m

\* A load at every access, whether the dict is empty or not
EnsureDataLoadedAlways(m, f) == LoadFromFile(m, f)

\* _ensure_data_loaded
EnsureDataLoaded(m, f) == IF m = <<>> THEN LoadFromFile(m, f) ELSE m

\* What _ensure_data_loaded did with the file: "none" when the dict was not
\* empty, else whether the file was missing, read, or unreadable.
LoadOutcome(m, f) ==
    IF m # <<>> THEN "none"
    ELSE IF f.kind = "json" THEN "read" ELSE f.kind

\* ------------------------------------------------- comparison and sorting

\* ord(c) of the characters that occur in the model's strings
Code(c) ==
    CASE c = "\n" -> 10 [] c = " " -> 32 [] c = "-" -> 45 [] c = "." -> 46
      [] IsAsciiDigit(c) -> 47 + (CHOOSE i \in 1..10 : Digits[i] = c)
      [] c = "C" -> 67 [] c = "H" -> 72 [] c = "I" -> 73 [] c = "L" -> 76
      [] c = "M" -> 77 [] c = "N" -> 78 [] c = "O" -> 79 [] c = "P" -> 80
      [] c = "R" -> 82 [] c = "T" -> 84
      [] c = "a" -> 97 [] c = "b" -> 98 [] c = "c" -> 99 [] c = "d" -> 100
      [] c = "e" -> 101 [] c = "g" -> 103 [] c = "h" -> 104 [] c = "i" -> 105
      [] c = "l" -> 108 [] c = "m" -> 109 [] c = "n" -> 110 [] c = "o" -> 111
      [] c = "p" -> 112 [] c = "q" -> 113 [] c = "r" -> 114 [] c = "s" -> 115
      [] c = "t" -> 116 [] c = "u" -> 117 [] c = "v" -> 118 [] c = "w" -> 119
      [] c = "x" -> 120
      [] c = "\\u0663" -> 1635
      [] c = Surrogate -> 55296
      [] c = "\\uff11" -> 65297

RECURSIVE StrLess(_, _)
\* a < b for two str: by code point, a proper prefix first
StrLess(a, b) ==
    IF b = <<>> THEN FALSE
    ELSE IF a = <<>> THEN TRUE
    ELSE IF Head(a) = Head(b) THEN StrLess(Tail(a), Tail(b))
    ELSE Code(Head(a)) < Code(Head(b))

RECURSIVE InsertDesc(_, _)
\* x put into the descending list l behind every element whose created_at is
\* not less than x's
InsertDesc(l, x) ==
    IF l = <<>> THEN <<x>>
    ELSE IF StrLess(Head(l).created_at, x.created_at) THEN <<x>> \o l
    ELSE <<Head(l)>> \o InsertDesc(Tail(l), x)

\* No sort at all: the records in dict order
Unsorted(acc, rest) == acc \o rest

RECURSIVE SortedDesc(_, _)
\* sorted(rest, key=created_at, reverse=True) appended to the sorted acc: the
\* sort is stable, equal keys stay in dict order
SortedDesc(acc, rest) ==
    IF rest = <<>> THEN acc
    ELSE SortedDesc(InsertDesc(acc, Head(rest)), Tail(rest))

Values(m) == [i \in 1..Len(m) |-> m[i].rec]

\* ------------------------------------------------------------- requests

\* The arguments of _run besides operation; None is the default of each.
NoArgs ==
    [incident_id |-> None, service_name |-> None, severity |-> None,
     status |-> None, timestamp |-> None, commander |-> None,
     communication_lead |-> None, playbook_applied |-> None,
     timeline |-> None, resolution_details |-> None]

PayApi == <<"p", "a", "y">>
WebApp == <<"w", "e", "b">>
Medium == <<"M", "e", "d", "i", "u", "m">>
High == <<"H", "i", "g", "h">>
Low == <<"L", "o", "w">>
Open == <<"O", "p", "e", "n">>
InProgress == <<"I", "n", " ", "P", "r", "o", "g", "r", "e", "s", "s">>
Resolved == <<"R", "e", "s", "o", "l", "v", "e", "d">>

\* The IDs the callers use: the two the sampled instants generate, and a
\* malformed one.
Inc0 == INC \o <<"0">>
Inc1000 == INC \o <<"1", "0", "0", "0">>
BadId == <<"i", "d">>

\* create with nothing but the service name
MinimalCreate == [NoArgs EXCEPT !.service_name = PayApi]

\* create with every argument given
FullCreate ==
    [incident_id |-> Inc1000, service_name |-> WebApp, severity |-> High,
     status |-> InProgress, timestamp |-> <<"T", "0", "5">>,
     commander |-> <<"c">>, communication_lead |-> <<"l">>,
     playbook_applied |-> <<"b">>, timeline |-> <<"t">>,
     resolution_details |-> <<"r">>]

\* create with a malformed ID, a service name the mirror file cannot encode
\* and an empty severity
UnencodableCreate ==
    [NoArgs EXCEPT !.incident_id = BadId, !.service_name = <<Surrogate>>,
                   !.severity = <<>>, !.status = Resolved]

\* create with an ID and nothing but the service name
SparseCreate == [MinimalCreate EXCEPT !.incident_id = Inc1000]

CreateRequests ==
    {MinimalCreate, NoArgs, FullCreate, SparseCreate, UnencodableCreate}

TargetIds == {None, Inc0, Inc1000}

StatusResolved == [NoArgs EXCEPT !.status = Resolved]

SeveralFields ==
    [NoArgs EXCEPT !.service_name = <<>>, !.severity = Low,
                   !.timestamp = <<"T", "0", "9">>, !.timeline = <<"x">>]

UpdateRequests == {NoArgs, StatusResolved, SeveralFields}

\* The update calls: every request on the two IDs, and one without an ID.
UpdateCalls == ({Inc0, Inc1000} \X UpdateRequests) \cup {<<None, NoArgs>>}

\* --------------------------------------------------------------- clock

\* The values n successive clock reads of one handler return: the clock does
\* not run backwards and may move before any of the reads.
ClockReads(n) ==
    {r \in [1..n -> {u \in TimePoints : u >= now}] :
        \A i \in 1..(n - 1) : r[i] <= r[i + 1]}

\* The clock after the reads r of a handler.
ClockAfter(r) == IF Len(r) = 0 THEN now ELSE r[Len(r)]

\* ---------------------------------------------------------- _run results

\* What a call returned: op and req are the call; success and error the
\* outcome; key the incident ID acted on; data the record or records in the
\* result; ids the available_incidents; fields the updated_fields; before the
\* dict the handler started from, after its lazy load; load what
\* _ensure_data_loaded did.
NoCall ==
    [op |-> "none", req |-> NoArgs, success |-> FALSE, error |-> "none",
     key |-> None, data |-> <<>>, ids |-> <<>>, fields |-> <<>>,
     before |-> <<>>, load |-> "none"]

\* The part of a call kept in prev.
Summary(l) == [op |-> l.op, req |-> l.req, success |-> l.success, key |-> l.key]

Result(op, req, ok, error, key, data, ids, fields) ==
    [op |-> op, req |-> req, success |-> ok, error |-> error, key |-> key,
     data |-> data, ids |-> ids, fields |-> fields,
     before |-> EnsureDataLoaded(store, file),
     load |-> LoadOutcome(store, file)]

\* -------------------------------------------------------------- create

\* The ID is generated when none is given or the given one is malformed.
GeneratesId(req) ==
    Falsy(req.incident_id) \/ ~MatchesIdFormat(req.incident_id)

\* Clock reads of _create_incident: one for a generated ID, one for a
\* defaulted timestamp, and, once service_name is validated, one each for
\* created_at and last_updated.
CreateReadCount(req) ==
    (IF GeneratesId(req) THEN 1 ELSE 0) +
    (IF Falsy(req.timestamp) THEN 1 ELSE 0) +
    (IF Falsy(req.service_name) THEN 0 ELSE 2)

CreateId(req, r) ==
    IF GeneratesId(req) THEN GenerateIncidentId(r[1]) ELSE req.incident_id

CreateTimestamp(req, r) ==
    IF Falsy(req.timestamp)
    THEN IsoFormat(r[IF GeneratesId(req) THEN 2 ELSE 1])
    ELSE req.timestamp

\* incident_record of _create_incident
IncidentRecord(req, r) ==
    [incident_id |-> CreateId(req, r),
     service_name |-> req.service_name,
     severity |-> Or(req.severity, Medium),
     status |-> Or(req.status, Open),
     timestamp |-> CreateTimestamp(req, r),
     commander |-> req.commander,
     communication_lead |-> req.communication_lead,
     playbook_applied |-> req.playbook_applied,
     timeline |-> req.timeline,
     resolution_details |-> req.resolution_details,
     created_at |-> IsoFormat(r[Len(r) - 1]),
     last_updated |-> IsoFormat(r[Len(r)])]

\* A create that accepts a missing service_name
CreateValidAlways(req) == TRUE

\* service_name is required
CreateValid(req) == ~Falsy(req.service_name)

\* A create that leaves the record of an ID already in the dict as it is
CreateStoreKeepsExisting(m, req, r) ==
    IF CreateValid(req) /\ ~Has(m, CreateId(req, r))
    THEN Put(m, CreateId(req, r), IncidentRecord(req, r))
    ELSE m

\* The dict after _create_incident, m being the dict after the lazy load.
CreateStore(m, req, r) ==
    IF CreateValid(req) THEN Put(m, CreateId(req, r), IncidentRecord(req, r))
    ELSE m

\* _create_incident up to its call of _save_to_file
CreateInMemory(req, r) ==
    LET m == EnsureDataLoaded(store, file)
    IN  /\ store' = CreateStore(m, req, r)
        /\ now' = ClockAfter(r)
        /\ last' =
            IF CreateValid(req)
            THEN Result("create", req, TRUE, "none", CreateId(req, r),
                        <<IncidentRecord(req, r)>>, <<>>, <<>>)
            ELSE Result("create", req, FALSE, "service_name_required", None,
                        <<>>, <<>>, <<>>)

Create(req, r) ==
    /\ CreateInMemory(req, r)
    /\ file' = IF CreateValid(req) THEN SaveToFile(store') ELSE file

\* ---------------------------------------------------------------- read

Read(id) ==
    LET m == EnsureDataLoaded(store, file)
        req == [NoArgs EXCEPT !.incident_id = id]
    IN  /\ store' = m
        /\ UNCHANGED <<file, now>>
        /\ last' =
            IF Falsy(id)
            THEN Result("read", req, FALSE, "id_required", None, <<>>, <<>>, <<>>)
            ELSE IF ~Has(m, id)
            THEN Result("read", req, FALSE, "not_found", id, <<>>, Keys(m), <<>>)
            ELSE Result("read", req, TRUE, "none", id, <<Get(m, id)>>, <<>>, <<>>)

\* -------------------------------------------------------------- update

\* The arguments _update_incident copies, in the order it tests them.
UpdatableFields ==
    <<"service_name", "severity", "status", "timestamp", "commander",
      "communication_lead", "playbook_applied", "timeline",
      "resolution_details">>

\* list(updates.keys())
UpdatedFields(req) == SelectSeq(UpdatableFields, LAMBDA f : req[f] # None)

\* MergeFields without the `is not None` tests: every argument is copied.
MergeFieldsCopiesNone(rec, req) ==
    [f \in Fields |->
        IF \E i \in 1..Len(UpdatableFields) : UpdatableFields[i] = f
        THEN req[f] ELSE rec[f]]

\* The record after the assignments of the non-None arguments.
MergeFields(rec, req) ==
    [f \in Fields |->
        IF (\E i \in 1..Len(UpdatableFields) : UpdatableFields[i] = f)
           /\ req[f] # None
        THEN req[f] ELSE rec[f]]

\* An update that stamps created_at as well
UpdatedRecordRestampsCreation(rec, req, t) ==
    [MergeFields(rec, req) EXCEPT !.last_updated = IsoFormat(t),
                                  !.created_at = IsoFormat(t)]

\* The record after _update_incident's assignments, last_updated included.
UpdatedRecord(rec, req, t) ==
    [MergeFields(rec, req) EXCEPT !.last_updated = IsoFormat(t)]

\* _update_incident up to its call of _save_to_file
UpdateInMemory(id, fields, r) ==
    LET m == EnsureDataLoaded(store, file)
        req == [fields EXCEPT !.incident_id = id]
        found == ~Falsy(id) /\ Has(m, id)
        rec == UpdatedRecord(Get(m, id), req, r[1])
    IN  /\ Len(r) = IF found THEN 1 ELSE 0
        /\ store' = IF found THEN Put(m, id, rec) ELSE m
        /\ now' = ClockAfter(r)
        /\ last' =
            IF Falsy(id)
            THEN Result("update", req, FALSE, "id_required", None, <<>>, <<>>, <<>>)
            ELSE IF ~Has(m, id)
            THEN Result("update", req, FALSE, "not_found", id, <<>>, Keys(m), <<>>)
            ELSE IF UpdatedFields(req) = <<>>
            THEN Result("update", req, FALSE, "no_fields", id, <<rec>>, <<>>, <<>>)
            ELSE Result("update", req, TRUE, "none", id, <<rec>>, <<>>,
                        UpdatedFields(req))

\* The file is written when the incident exists and a field was given.
Update(id, fields, r) ==
    /\ UpdateInMemory(id, fields, r)
    /\ file' = IF last'.success THEN SaveToFile(store') ELSE file

\* ---------------------------------------------------------------- list

List ==
    LET m == EnsureDataLoaded(store, file)
    IN  /\ store' = m
        /\ UNCHANGED <<file, now>>
        /\ last' = Result("list", NoArgs, TRUE, "none", None,
                          SortedDesc(<<>>, Values(m)), <<>>, <<>>)

\* -------------------------------------------------------------- delete

\* _delete_incident up to its call of _save_to_file
DeleteInMemory(id) ==
    LET m == EnsureDataLoaded(store, file)
        req == [NoArgs EXCEPT !.incident_id = id]
        found == ~Falsy(id) /\ Has(m, id)
    IN  /\ store' = IF found THEN Pop(m, id) ELSE m
        /\ UNCHANGED now
        /\ last' =
            IF Falsy(id)
            THEN Result("delete", req, FALSE, "id_required", None, <<>>, <<>>, <<>>)
            ELSE IF ~Has(m, id)
            THEN Result("delete", req, FALSE, "not_found", id, <<>>, Keys(m), <<>>)
            ELSE Result("delete", req, TRUE, "none", id, <<Get(m, id)>>, <<>>, <<>>)

\* A delete that removes the key from the dict and leaves the mirror file as
\* it was
DeleteUnsaved(id) == DeleteInMemory(id) /\ UNCHANGED file

\* The file is written when the incident was found.
Delete(id) ==
    /\ DeleteInMemory(id)
    /\ file' = IF last'.success THEN SaveToFile(store') ELSE file

\* -------------------------------------------------- main.py: the threads

\* The threads of one process that run the pipeline: the background task of
\* a webhook request, the executor thread of a /run request, and a thread in
\* cli_train, cli_replay or cli_test.
Threads == {"hook", "run", "cli"}

\* No request yet: crew_lock = Lock() is free.
NoRuns ==
    /\ pc = [t \in Threads |-> "idle"]
    /\ lock = "free"
    /\ log = <<>>

\* One process only: there is no second dict.
OneProcess ==
    /\ other = <<>>
    /\ cur = "p1"
    /\ saving = [p \in {"p1", "p2"} |-> [phase |-> "none", entry |-> <<>>]]

\* No call of _make_api_request, no pull-request flow, no report request
NoRequest == gh = [state |-> "none"]

NoFlow == pr = [state |-> "none"]

NoReports == pdf = [state |-> "none"]

\* No call of a stateless tool has been made.
NoApplied == [tool |-> "none"]

Unapplied == call = [last |-> NoApplied, prev |-> NoApplied]

\* ------------------------------------------------------------- process

\* The process ends and a new one starts: the class attribute
\* _incident_store is {} again, the file stays.
Restart ==
    /\ store' = <<>>
    /\ last' = NoCall
    /\ UNCHANGED <<file, now>>

\* The mirror file an earlier process has left behind when it created one
\* incident and ended.
EarlierFile == SaveToFile(CreateStore(<<>>, MinimalCreate, <<0, 0, 0, 0>>))

\* A process starts with an empty dict; the mirror file is missing or is the
\* one an earlier process left.
Init ==
    /\ store = <<>>
    /\ file \in {NoFile, EarlierFile}
    /\ now = 0
    /\ last = NoCall
    /\ prev = Summary(NoCall)
    /\ steps = 0
    /\ NoRuns
    /\ OneProcess
    /\ NoRequest /\ NoFlow /\ NoReports /\ Unapplied

Step(A) ==
    /\ steps < MaxSteps
    /\ A
    /\ prev' = Summary(last)
    /\ steps' = steps + 1
    /\ UNCHANGED <<runVars, procVars, restVars>>

DoCreate ==
    \E req \in CreateRequests : \E r \in ClockReads(CreateReadCount(req)) :
        Step(Create(req, r))

DoRead == \E id \in TargetIds : Step(Read(id))

DoUpdate ==
    \E c \in UpdateCalls : \E r \in ClockReads(0) \cup ClockReads(1) :
        Step(Update(c[1], c[2], r))

DoList == Step(List)

DoDelete == \E id \in TargetIds : Step(Delete(id))

DoRestart == Step(Restart)

Next == DoCreate \/ DoRead \/ DoUpdate \/ DoList \/ DoDelete \/ DoRestart

Spec == Init /\ [][Next]_vars

\* --------------------------------------- creates with a caller's ID

\* create with the service name and an incident_id: none, one that is not at
\* all of the format, INC-0, INC-0 followed by a newline, and INC- followed by
\* a digit of another script
SuppliedCreates ==
    {[MinimalCreate EXCEPT !.incident_id = id] :
        id \in {None, BadId, Inc0, Inc0 \o <<"\n">>, INC \o <<"\\u0663">>}}

DoCreateSupplied ==
    \E req \in SuppliedCreates : \E r \in ClockReads(CreateReadCount(req)) :
        Step(Create(req, r))

\* Create, update and delete from an empty dict and no mirror file
InitKeys == Init /\ file = NoFile

NextKeys == DoCreateSupplied \/ DoUpdate \/ DoDelete

SpecKeys == InitKeys /\ [][NextKeys]_vars

\* ------------------------------------------- main.py: the pipeline runs

\* The tool calls a pipeline run makes here.
RunCalls ==
    {[op |-> "create", req |-> MinimalCreate],
     [op |-> "create", req |-> UnencodableCreate],
     [op |-> "update", req |-> [StatusResolved EXCEPT !.incident_id = Inc0]],
     [op |-> "delete", req |-> [NoArgs EXCEPT !.incident_id = Inc0]]}

\* _run: the handler of the operation
ToolCall(c, r) ==
    CASE c.op = "create" -> Create(c.req, r)
      [] c.op = "read" -> r = <<>> /\ Read(c.req.incident_id)
      [] c.op = "update" -> Update(c.req.incident_id, c.req, r)
      [] c.op = "list" -> r = <<>> /\ List
      [] c.op = "delete" -> r = <<>> /\ Delete(c.req.incident_id)

\* The clock reads a call may make
CallReads(c) ==
    IF c.op = "create" THEN ClockReads(CreateReadCount(c.req))
    ELSE ClockReads(0) \cup ClockReads(1)

\* A lock that lets every thread in
LockIgnored == TRUE

\* Lock.acquire returns only when no thread holds the lock.
LockFree == lock = "free"

\* A with statement that keeps the lock when its body raises
WithExitKeepsOnRaise(raised) == IF raised THEN lock ELSE "free"

\* `with crew_lock:` releases the lock when its body returns and when it
\* raises.
WithExit(raised) == "free"

\* A request arrives: the webhook adds crew_job to the background tasks and
\* answers "accepted", /run hands run_crew to the executor, the command line
\* calls cli_train, cli_replay or cli_test.
Request(t) ==
    /\ pc[t] = "idle"
    /\ pc' = [pc EXCEPT ![t] = "queued"]
    /\ UNCHANGED <<lock, log>>
    /\ UNCHANGED <<toolVars, procVars, restVars>>

\* The thread enters `with crew_lock:`.
Acquire(t) ==
    /\ pc[t] = "queued"
    /\ LockFree
    /\ lock' = t
    /\ pc' = [pc EXCEPT ![t] = "running"]
    /\ UNCHANGED log
    /\ UNCHANGED <<toolVars, procVars, restVars>>

\* The pipeline of the thread calls the incident tool.
RunTool(t) ==
    /\ pc[t] = "running"
    /\ steps < MaxRunOps
    /\ \E c \in RunCalls : \E r \in CallReads(c) : ToolCall(c, r)
    /\ prev' = Summary(last)
    /\ steps' = steps + 1
    /\ log' = Append(log, [run |-> t, op |-> last'.op, success |-> last'.success,
                           key |-> last'.key, data |-> last'.data])
    /\ UNCHANGED <<pc, lock>>
    /\ UNCHANGED <<procVars, restVars>>

\* kickoff (train, replay, test) returns.
Return(t) ==
    /\ pc[t] = "running"
    /\ pc' = [pc EXCEPT ![t] = "done"]
    /\ lock' = WithExit(FALSE)
    /\ UNCHANGED log
    /\ UNCHANGED <<toolVars, procVars, restVars>>

\* kickoff (train, replay, test) raises: crew_job logs the exception, /run
\* answers 500.
Raise(t) ==
    /\ pc[t] = "running"
    /\ pc' = [pc EXCEPT ![t] = "failed"]
    /\ lock' = WithExit(TRUE)
    /\ UNCHANGED log
    /\ UNCHANGED <<toolVars, procVars, restVars>>

\* A process starts with no mirror file.
InitRuns == Init /\ file = NoFile

NextRuns ==
    \E t \in Threads :
        Request(t) \/ Acquire(t) \/ RunTool(t) \/ Return(t) \/ Raise(t)

SpecRuns == InitRuns /\ [][NextRuns]_vars

\* Every run terminates, and a thread waiting for a lock that stays free
\* gets it.
FairRuns ==
    \A t \in Threads :
        WF_vars(Acquire(t)) /\ WF_vars(Return(t) \/ Raise(t))

SpecRunsFair == SpecRuns /\ FairRuns

\* --------------------------------- two processes sharing the mirror file

\* Each process has its own class attribute _incident_store; both use the
\* relative path incidents_database.json. store is the dict of the process
\* that is running, other the dict of the one that is not.

\* The tool calls the two processes make here.
SharedCalls ==
    {[op |-> "create", req |-> MinimalCreate],
     [op |-> "create", req |-> SparseCreate],
     [op |-> "update", req |-> [StatusResolved EXCEPT !.incident_id = Inc0]],
     [op |-> "read", req |-> [NoArgs EXCEPT !.incident_id = Inc0]],
     [op |-> "delete", req |-> [NoArgs EXCEPT !.incident_id = Inc0]]}

\* _run up to the call of _save_to_file of its handler
ToolCallInMemory(c, r) ==
    CASE c.op = "create" -> CreateInMemory(c.req, r)
      [] c.op = "read" -> r = <<>> /\ Read(c.req.incident_id)
      [] c.op = "update" -> UpdateInMemory(c.req.incident_id, c.req, r)
      [] c.op = "list" -> r = <<>> /\ List
      [] c.op = "delete" -> r = <<>> /\ DeleteInMemory(c.req.incident_id)

\* The running process calls the incident tool: the lazy load and the handler
\* up to its _save_to_file. A call that does not save returns.
ProcCall ==
    /\ steps < MaxSharedOps
    /\ saving[cur].phase = "none"
    /\ \E c \in SharedCalls : \E r \in CallReads(c) : ToolCallInMemory(c, r)
    /\ file' = file
    /\ prev' = Summary(last)
    /\ steps' = steps + 1
    /\ LET entry == [run |-> cur, op |-> last'.op, success |-> last'.success,
                     key |-> last'.key, data |-> last'.data]
       IN  IF last'.op \in {"create", "update", "delete"} /\ last'.success
           THEN /\ saving' = [saving EXCEPT
                                ![cur] = [phase |-> "open", entry |-> entry]]
                /\ log' = log
           ELSE /\ log' = Append(log, entry)
                /\ saving' = saving
    /\ UNCHANGED <<pc, lock, other, cur>>
    /\ UNCHANGED restVars

\* _save_to_file of the running process: open(path, 'w') empties the file.
ProcOpen ==
    /\ saving[cur].phase = "open"
    /\ file' = EmptyFile
    /\ saving' = [saving EXCEPT ![cur].phase = "write"]
    /\ UNCHANGED <<store, now, last, prev, steps>>
    /\ UNCHANGED <<runVars, other, cur, restVars>>

\* A _save_to_file that returns after open, leaving the file empty
ProcWriteNothing ==
    /\ saving[cur].phase = "write"
    /\ log' = Append(log, saving[cur].entry)
    /\ saving' = [saving EXCEPT ![cur] = [phase |-> "none", entry |-> <<>>]]
    /\ UNCHANGED <<store, file, now, last, prev, steps>>
    /\ UNCHANGED <<pc, lock, other, cur, restVars>>

\* _save_to_file of the running process: json.dump writes its dict from the
\* start of the file, over whatever the other process has written since this
\* one opened it, and the call returns.
ProcWrite ==
    /\ saving[cur].phase = "write"
    /\ file' = WriteOver(file, store)
    /\ log' = Append(log, saving[cur].entry)
    /\ saving' = [saving EXCEPT ![cur] = [phase |-> "none", entry |-> <<>>]]
    /\ UNCHANGED <<store, now, last, prev, steps>>
    /\ UNCHANGED <<pc, lock, other, cur, restVars>>

\* The other process runs next.
Switch ==
    /\ store' = other
    /\ other' = store
    /\ cur' = IF cur = "p1" THEN "p2" ELSE "p1"
    /\ UNCHANGED <<file, now, last, prev, steps, saving>>
    /\ UNCHANGED <<runVars, restVars>>

InitShared == Init /\ file = NoFile

NextShared == ProcCall \/ ProcOpen \/ ProcWrite \/ Switch

SpecShared == InitShared /\ [][NextShared]_vars

\* ------------------------- GitHubPRCreatorTool._make_api_request

\* The HTTP methods a call is made with; DELETE stands for the unsupported.
Methods == {"GET", "POST", "PUT", "DELETE"}

Supported == {"GET", "POST", "PUT"}

\* What one requests.get / post / put does: it returns a response with a
\* status, or raises Timeout, ConnectionError or another RequestException.
Outcomes ==
    {[kind |-> "response", status |-> c] : c \in {200, 404, 500}}
    \cup {[kind |-> k, status |-> 0] : k \in {"timeout", "connection", "other"}}

\* time.sleep(1)
RetryDelay == 1

\* Only a response below 500 counted as one
RespondedBelow500(o) == o.kind = "response" /\ o.status < 500

\* requests.get / post / put returned: the try block reaches its return
Responded(o) == o.kind = "response"

\* The except clauses that sleep and continue
Retriable(o) == o.kind \in {"timeout", "connection"}

\* The tuple (response, error) a call returns
Returned(g, status, error) ==
    [g EXCEPT !.state = "returned", !.response = status, !.error = error]

\* _make_api_request is called; range(max_retries) starts at 0.
GhStart ==
    /\ gh.state = "none"
    /\ \E m \in Methods : \E n \in 0..MaxRetries :
        gh' = [state |-> "running", method |-> m, max |-> n, attempt |-> 0,
               trace |-> <<>>, slept |-> 0, response |-> 0, error |-> "none"]
    /\ UNCHANGED <<toolVars, runVars, procVars, pr, pdf, call>>

\* One pass of the loop body with a supported method.
GhAttempt ==
    /\ gh.state = "running"
    /\ gh.attempt < gh.max
    /\ gh.method \in Supported
    /\ \E o \in Outcomes :
        LET g == [gh EXCEPT !.trace = Append(gh.trace, o)]
        IN  gh' =
            IF Responded(o) THEN Returned(g, o.status, "")
            ELSE IF Retriable(o)
            THEN IF gh.attempt < gh.max - 1
                 THEN [g EXCEPT !.attempt = gh.attempt + 1,
                                !.slept = gh.slept + RetryDelay]
                 ELSE Returned(g, 0, o.kind)
            ELSE Returned(g, 0, "network")
    /\ UNCHANGED <<toolVars, runVars, procVars, pr, pdf, call>>

\* The loop body with any other method returns at once, without a request.
GhUnsupported ==
    /\ gh.state = "running"
    /\ gh.attempt < gh.max
    /\ gh.method \notin Supported
    /\ gh' = Returned(gh, 0, "unsupported")
    /\ UNCHANGED <<toolVars, runVars, procVars, pr, pdf, call>>

\* The loop ends without a return: max_retries was 0.
GhExhausted ==
    /\ gh.state = "running"
    /\ gh.attempt >= gh.max
    /\ gh' = Returned(gh, 0, "exceeded")
    /\ UNCHANGED <<toolVars, runVars, procVars, pr, pdf, call>>

\* The tool with no incident call made, one process, no mirror file
ToolIdle ==
    /\ store = <<>> /\ file = NoFile /\ now = 0
    /\ last = NoCall /\ prev = Summary(NoCall) /\ steps = 0
    /\ NoRuns /\ OneProcess

InitRequest == ToolIdle /\ NoRequest /\ NoFlow /\ NoReports /\ Unapplied

NextRequest == GhStart \/ GhAttempt \/ GhUnsupported \/ GhExhausted

SpecRequest == InitRequest /\ [][NextRequest]_vars

\* ------------------------------------ GitHubPRCreatorTool._run

\* timeout=15 of every requests call, in seconds
RequestTimeout == 15

\* max_retries=2 of every request the flow makes
FlowRetries == 2

\* timedelta(minutes=3)
MaxExecutionMinutes == 3

MaxExecutionTime == MaxExecutionMinutes * 60

\* The seconds one _make_api_request of the flow takes: a prompt reply, or
\* the longest it can wait (each attempt timing out, a sleep between them).
Durations ==
    {1, FlowRetries * RequestTimeout + (FlowRetries - 1) * RetryDelay}

\* What the flow sees of a request: the status it expects with a body it
\* can read ("ok"), that status with a body whose reading raises
\* ("malformed": not JSON, or without the key subscripted), status 401,
\* another status, or an error message and no response.
Replies == {"ok", "malformed", "unauthorized", "status", "error"}

\* The requests of the flow, in order; lookup and commit once per file.
RequestSteps == {"user", "repo", "ref", "branch", "lookup", "commit", "pull"}

\* The requests preceded by `if datetime.now() - start_time > max_execution_time`
Checked == {"repo", "ref", "branch", "lookup", "pull"}

Exceeded(f) == f.elapsed > MaxExecutionTime

\* A return that leaves the flow running
FlowGoesOn(f, result) == [f EXCEPT !.result = result]

\* The flow returns.
FlowReturn(f, result) == [f EXCEPT !.state = "returned", !.result = result]

\* The statement the flow goes on with after a request with reply rep. The
\* body is read after user, repo, ref and pull and after a lookup that
\* answers 200; what reading it raises is caught at the end of _run, inside
\* the loop at the end of the loop body.
AfterRequest(f, rep) ==
    CASE f.step = "user" ->
           IF rep = "ok" THEN [f EXCEPT !.step = "repo"]
           ELSE IF rep = "malformed" THEN FlowReturn(f, "CRITICAL_ERROR")
           ELSE FlowReturn(f, "AUTHENTICATION_FAILURE")
      [] f.step = "repo" ->
           IF rep = "ok" THEN [f EXCEPT !.step = "ref"]
           ELSE IF rep = "malformed" THEN FlowReturn(f, "CRITICAL_ERROR")
           ELSE IF rep = "unauthorized"
           THEN FlowReturn(f, "AUTHENTICATION_FAILURE")
           ELSE FlowReturn(f, "Error")
      [] f.step = "ref" ->
           IF rep = "ok" THEN [f EXCEPT !.step = "branch"]
           ELSE IF rep = "malformed" THEN FlowReturn(f, "CRITICAL_ERROR")
           ELSE IF rep = "unauthorized"
           THEN FlowReturn(f, "AUTHENTICATION_FAILURE")
           ELSE FlowReturn(f, "Error")
      [] f.step = "branch" ->
           IF rep \in {"ok", "malformed"} THEN [f EXCEPT !.step = "loop"]
           ELSE FlowReturn(f, "Error")
      [] f.step = "lookup" ->
           IF rep \in {"error", "malformed"} THEN FlowReturn(f, "Error")
           ELSE [f EXCEPT !.step = "commit"]
      [] f.step = "commit" ->
           IF rep \notin {"ok", "malformed"} THEN FlowReturn(f, "Error")
           ELSE IF f.file < f.files
           THEN [f EXCEPT !.committed = f.committed + 1,
                          !.file = f.file + 1, !.step = "lookup"]
           ELSE [f EXCEPT !.committed = f.committed + 1, !.step = "pull"]
      [] f.step = "pull" ->
           IF rep = "ok" THEN FlowReturn(f, "success")
           ELSE IF rep = "malformed" THEN FlowReturn(f, "CRITICAL_ERROR")
           ELSE FlowReturn(f, "Error")

\* _run is called with a valid token and URL; start_time is read.
PrStart ==
    /\ pr.state = "none"
    /\ \E n \in 0..MaxFiles :
        pr' = [state |-> "running", step |-> "user", elapsed |-> 0,
               files |-> n, file |-> 1, committed |-> 0,
               started |-> <<>>, result |-> "none"]
    /\ UNCHANGED <<toolVars, runVars, procVars, gh, pdf, call>>

\* A budget check finds the budget exceeded.
PrTimeout ==
    /\ pr.state = "running"
    /\ pr.step \in Checked \cup {"loop"}
    /\ Exceeded(pr)
    /\ pr' = FlowReturn(pr, "TIMEOUT_ERROR")
    /\ UNCHANGED <<toolVars, runVars, procVars, gh, pdf, call>>

\* The check before the loop passes; the loop is entered, and with no file
\* left without a commit the flow returns an error.
PrLoop ==
    /\ pr.state = "running"
    /\ pr.step = "loop"
    /\ ~Exceeded(pr)
    /\ pr' = IF pr.files = 0 THEN FlowReturn(pr, "Error")
             ELSE [pr EXCEPT !.step = "lookup"]
    /\ UNCHANGED <<toolVars, runVars, procVars, gh, pdf, call>>

\* The request was answered with a status the flow accepts: the one it
\* tests for, or for the lookup of a file any status (a file that is not
\* there is created).
Accepted(step, rep) ==
    \/ rep \in {"ok", "malformed"}
    \/ step = "lookup" /\ rep \in {"status", "unauthorized"}

\* The request of the current step is made, after its check if it has one.
PrRequest ==
    /\ pr.state = "running"
    /\ pr.step \in RequestSteps
    /\ pr.step \in Checked => ~Exceeded(pr)
    /\ \E d \in Durations : \E rep \in Replies :
        pr' = AfterRequest(
                [pr EXCEPT !.started = Append(pr.started,
                                [step |-> pr.step, at |-> pr.elapsed,
                                 accepted |-> Accepted(pr.step, rep)]),
                           !.elapsed = pr.elapsed + d],
                rep)
    /\ UNCHANGED <<toolVars, runVars, procVars, gh, pdf, call>>

\* What _run returns for a result: the keys of the JSON object that
\* json.dumps(result) writes, or no key for a plain message such as
\* "TIMEOUT_ERROR: ..." or "Error: ...".
FlowResultKeys(result) ==
    IF result = "success"
    THEN {"status", "pr_url", "pr_number", "branch_name", "base_branch",
          "repository", "committed_files", "message",
          "execution_time_seconds", "debug_info"}
    ELSE {}

InitFlow == ToolIdle /\ NoRequest /\ NoFlow /\ NoReports /\ Unapplied

NextFlow == PrStart \/ PrTimeout \/ PrLoop \/ PrRequest

SpecFlow == InitFlow /\ [][NextFlow]_vars

\* ------------------------------------------ PDFGeneratorTool._run

\* Incident IDs a report is asked for: a, a:b, a_b, a/b
ReportIds == {<<"a">>, <<"a", ":", "b">>, <<"a", "_", "b">>, <<"a", "/", "b">>}

\* base_output_dir = "outputs"
Outputs == <<"o", "u", "t", "p", "u", "t", "s">>

\* incident_id.replace("/", "_").replace("\\", "_").replace(":", "_")
Clean(id) ==
    [i \in 1..Len(id) |-> IF id[i] \in {"/", "\\", ":"} THEN "_" ELSE id[i]]

\* os.path.join of two parts
Join(a, b) ==
    IF b # <<>> /\ b[1] = "/" THEN b
    ELSE IF a = <<>> \/ a[Len(a)] = "/" THEN a \o b
    ELSE a \o <<"/">> \o b

\* get_incident_output_folder, without its makedirs
GetIncidentOutputFolder(id) == Join(Outputs, Clean(id))

\* get_incident_file_path, without its makedirs
GetIncidentFilePath(id, filename) == Join(GetIncidentOutputFolder(id), filename)

\* f"COE_{incident_id}.pdf"
ReportName(id) == <<"C", "O", "E", "_">> \o id \o <<".", "p", "d", "f">>

ReportPath(id) == GetIncidentFilePath(id, ReportName(id))

ReportPaths == {ReportPath(id) : id \in ReportIds}

\* f"outputs/{incident_id}"
OutputDir(id) == Outputs \o <<"/">> \o id

Slashes(p) == {j \in 1..Len(p) : p[j] = "/"}

\* The directories os.makedirs(p, exist_ok=True) leaves in existence
MakeDirs(p) == {SubSeq(p, 1, j - 1) : j \in Slashes(p)} \cup {p}

\* The directory a file at p is created in
Parent(p) ==
    LET j == CHOOSE k \in Slashes(p) : \A l \in Slashes(p) : l <= k
    IN  SubSeq(p, 1, j - 1)

\* The size of a file that does not exist
Absent == 0 - 1

\* The sizes doc.build leaves a report with, in bytes
BuildSizes == {1000, 3000000}

\* 2 * 1024 * 1024
CompressLimit == 2 * 1024 * 1024

\* What _apply_additional_compression leaves of a file of s bytes: a
\* rewritten, smaller file, or the file as it was (PyPDF2 not installed).
Compressed(s) == {s \div 2, s}

\* What a generation does: an exception before the file is written, or a
\* file of this size.
BuildOutcomes ==
    {[ok |-> FALSE, size |-> 0]} \cup {[ok |-> TRUE, size |-> n] : n \in BuildSizes}

\* No existing report is ever seen
ReportNeverExists(d, p) == FALSE

\* os.path.exists(output_filename)
ReportExists(d, p) == p \in d.dirs \/ d.files[p] # Absent

NoReport ==
    [op |-> "none", id |-> <<>>, path |-> <<>>, existed |-> FALSE,
     before |-> Absent, success |-> FALSE, size |-> 0, message |-> "none"]

\* The disk with no outputs directory
EmptyDisk ==
    [state |-> "ready", dirs |-> {}, files |-> [p \in ReportPaths |-> Absent],
     written |-> [p \in ReportPaths |-> 0], last |-> NoReport, requests |-> 0]

\* The disk an earlier process left, with a report for incident a
EarlierDisk ==
    [EmptyDisk EXCEPT
        !.dirs = MakeDirs(OutputDir(<<"a">>)),
        !.files = [EmptyDisk.files EXCEPT ![ReportPath(<<"a">>)] = 1000]]

\* One call of _run, which ends by returning its JSON or by raising.
PdfRun ==
    /\ pdf.state = "ready"
    /\ pdf.requests < MaxReports
    /\ \E id \in ReportIds : \E b \in BuildOutcomes :
        LET path == ReportPath(id)
            d == [pdf EXCEPT
                    !.dirs = pdf.dirs \cup MakeDirs(OutputDir(id))
                                      \cup MakeDirs(GetIncidentOutputFolder(id)),
                    !.requests = pdf.requests + 1]
            called == [NoReport EXCEPT !.op = "run", !.id = id, !.path = path,
                                       !.existed = ReportExists(d, path),
                                       !.before = pdf.files[path]]
        IN  IF ReportExists(d, path)
            THEN pdf' = [d EXCEPT !.last =
                            [called EXCEPT !.success = TRUE,
                                           !.size = d.files[path],
                                           !.message = "exists"]]
            ELSE IF ~b.ok \/ Parent(path) \notin d.dirs
            THEN pdf' = [d EXCEPT !.last = [called EXCEPT !.message = "raised"]]
            ELSE \E size \in (IF b.size > CompressLimit
                             THEN Compressed(b.size) ELSE {b.size}) :
                    pdf' = [d EXCEPT
                              !.files[path] = size,
                              !.written[path] = d.written[path] + 1,
                              !.last = [called EXCEPT !.success = TRUE,
                                                      !.size = size,
                                                      !.message = "generated"]]
    /\ UNCHANGED <<toolVars, runVars, procVars, gh, pr, call>>

InitReport ==
    /\ ToolIdle /\ NoRequest /\ NoFlow /\ Unapplied
    /\ pdf \in {EmptyDisk, EarlierDisk}

NextReport == PdfRun

SpecReport == InitReport /\ [][NextReport]_vars

\* ------------------------------------------- FileOrganizerTool._run

\* The call of a stateless tool that returned r is the last one made.
Applied(r) ==
    /\ call' = [last |-> r, prev |-> call.last]
    /\ UNCHANGED <<toolVars, runVars, procVars, gh, pr, pdf>>

\* Nothing has been called, of any tool.
AllIdle == ToolIdle /\ NoRequest /\ NoFlow /\ NoReports /\ Unapplied

\* file_type values: report, timeline, gantt, Gantt, log and the empty string
Kinds ==
    {<<"r", "e", "p", "o", "r", "t">>,
     <<"t", "i", "m", "e", "l", "i", "n", "e">>,
     <<"g", "a", "n", "t", "t">>, <<"G", "a", "n", "t", "t">>,
     <<"l", "o", "g">>, <<>>}

\* str.lower(), over the letters of Kinds
Lower(s) == [i \in 1..Len(s) |-> IF s[i] = "G" THEN "g" ELSE s[i]]

\* The filename for a file type and an incident ID
FileName(id, kind) ==
    LET pdfExt == <<".", "p", "d", "f">>
        htmlExt == <<".", "h", "t", "m", "l">>
    IN  IF Lower(kind) = <<"r", "e", "p", "o", "r", "t">>
        THEN <<"C", "O", "E", "_">> \o id \o pdfExt
        ELSE IF Lower(kind) = <<"t", "i", "m", "e", "l", "i", "n", "e">>
        THEN <<"t", "i", "m", "e", "l", "i", "n", "e", "_">> \o id \o htmlExt
        ELSE IF Lower(kind) = <<"g", "a", "n", "t", "t">>
        THEN <<"g", "a", "n", "t", "t", "_">> \o id \o htmlExt
        ELSE kind \o <<"_">> \o id \o pdfExt

\* The disk after get_incident_output_folder: os.makedirs(..., exist_ok=True)
MadeFolder(d, id) ==
    [d EXCEPT !.dirs = d.dirs \cup MakeDirs(GetIncidentOutputFolder(id))]

\* list_incident_files, without its makedirs: the files directly inside the
\* folder of the incident
ListIncidentFiles(d, id) ==
    {p \in ReportPaths :
        d.files[p] # Absent /\ Parent(p) = GetIncidentOutputFolder(id)}

\* get_incident_summary, without its makedirs: the folder and the number of
\* files in it
GetIncidentSummary(d, id) ==
    [tool |-> "summary", id |-> id,
     folder |-> GetIncidentOutputFolder(id),
     total_files |-> Cardinality(ListIncidentFiles(d, id))]

\* _run of the file organizer: the arguments after their defaults, the path
\* it reports for the file, and the folder and file count of the summary.
OrganizerRun(d, incident_id, file_type) ==
    LET id == IF incident_id = <<>>
              THEN <<"U", "N", "K", "N", "O", "W", "N", "_",
                     "I", "N", "C", "I", "D", "E", "N", "T">>
              ELSE incident_id
        kind == IF file_type = <<>> THEN <<"r", "e", "p", "o", "r", "t">>
                ELSE file_type
    IN  [tool |-> "file_organizer", id |-> id, kind |-> kind,
         path |-> GetIncidentFilePath(id, FileName(id, kind)),
         folder |-> GetIncidentSummary(d, id).folder,
         total_files |-> GetIncidentSummary(d, id).total_files]

\* The call that returned r is the last one made, and the folder of the
\* incident it was made for exists.
AppliedOnDisk(r) ==
    /\ call' = [last |-> r, prev |-> call.last]
    /\ pdf' = MadeFolder(pdf, r.id)
    /\ UNCHANGED <<toolVars, runVars, procVars, gh, pr>>

DoOrganize ==
    \E id \in ReportIds \cup {<<>>} : \E kind \in Kinds :
        AppliedOnDisk(OrganizerRun(pdf, id, kind))

\* utils.get_incident_summary is called.
DoSummary == \E id \in ReportIds : AppliedOnDisk(GetIncidentSummary(pdf, id))

\* utils.list_incident_files is called.
DoListFiles ==
    \E id \in ReportIds :
        AppliedOnDisk([tool |-> "list_files", id |-> id,
                       files |-> ListIncidentFiles(pdf, id)])

\* The disk is empty or the one an earlier process left.
InitOrganizer ==
    /\ ToolIdle /\ NoRequest /\ NoFlow /\ Unapplied
    /\ pdf \in {EmptyDisk, EarlierDisk}

NextOrganizer == DoOrganize \/ DoSummary \/ DoListFiles

SpecOrganizer == InitOrganizer /\ [][NextOrganizer]_vars

\* ----------------------------------------- WebhookAlertParserTool._run

\* The thresholds of _run before the per-call ones are applied
DefaultThresholds == [critical |-> 90, high |-> 70, medium |-> 50, low |-> 30]

\* severity_thresholds: not given, a text that is not JSON, or a JSON object
ThresholdArgs ==
    {[kind |-> "absent", dict |-> [k \in {} |-> 0]],
     [kind |-> "invalid", dict |-> [k \in {} |-> 0]],
     [kind |-> "dict", dict |-> [k \in {} |-> 0]],
     [kind |-> "dict", dict |-> [k \in {"critical"} |-> 95]],
     [kind |-> "dict", dict |-> [k \in {"critical"} |-> 60]],
     [kind |-> "dict", dict |-> [high |-> 50, medium |-> 20]]}

\* thresholds.update(custom_thresholds), when the argument parses
MergeThresholds(arg) ==
    IF arg.kind = "dict"
    THEN [k \in DOMAIN DefaultThresholds \cup DOMAIN arg.dict |->
            IF k \in DOMAIN arg.dict THEN arg.dict[k] ELSE DefaultThresholds[k]]
    ELSE DefaultThresholds

\* The value field of a payload: missing, a text that is no number, a number
MetricFields ==
    {[kind |-> "none", num |-> 0], [kind |-> "text", num |-> 0]}
    \cup {[kind |-> "num", num |-> n] :
            n \in {0, 20, 49, 50, 60, 69, 70, 89, 90, 95}}

\* A payload: whether its list of alerts (messages, evalMatches) has an
\* entry, whether the first entry's state is the firing one, and the entry's
\* value field.
Payloads == [items : BOOLEAN, firing : BOOLEAN, value : MetricFields]

Sources == {"pagerduty", "prometheus", "grafana"}

\* metric_value taken from the payload's value field by every parser
ParsedMetricOfAnySource(source, payload) ==
    IF payload.value.kind = "num" THEN payload.value ELSE [kind |-> "num", num |-> 0]

\* metric_value as _parse_pagerduty, _parse_prometheus and _parse_grafana
\* leave it; a text is kept as it is only by _parse_grafana.
ParsedMetric(source, payload) ==
    IF source = "pagerduty" \/ ~payload.items THEN [kind |-> "num", num |-> 0]
    ELSE IF payload.value.kind = "num" THEN payload.value
    ELSE IF source = "grafana" /\ payload.value.kind = "text" THEN payload.value
    ELSE [kind |-> "num", num |-> 0]

\* Severity with a threshold reached only when it is exceeded
CalculateSeverityAbove(metric_value, thresholds) ==
    IF metric_value > thresholds["critical"] THEN "P1"
    ELSE IF metric_value > thresholds["high"] THEN "P2"
    ELSE IF metric_value > thresholds["medium"] THEN "P3"
    ELSE "P4"

\* _calculate_severity
CalculateSeverity(metric_value, thresholds) ==
    IF metric_value >= thresholds["critical"] THEN "P1"
    ELSE IF metric_value >= thresholds["high"] THEN "P2"
    ELSE IF metric_value >= thresholds["medium"] THEN "P3"
    ELSE "P4"

\* _run of the webhook parser on a payload that is valid JSON
WebhookRun(source, payload, arg) ==
    LET metric == ParsedMetric(source, payload)
        severity == CalculateSeverity(metric.num, MergeThresholds(arg))
        called == [tool |-> "webhook_alert_parser", source |-> source,
                   payload |-> payload, arg |-> arg]
    IN  IF metric.kind = "text"
        THEN called @@ [success |-> FALSE, metric_value |-> 0,
                        severity |-> "none", should_create_incident |-> FALSE,
                        threshold_breached |-> FALSE]
        ELSE called @@ [success |-> TRUE, metric_value |-> metric.num,
                        severity |-> severity,
                        should_create_incident |-> severity \in {"P1", "P2"},
                        threshold_breached |->
                            /\ payload.firing
                            /\ source = "grafana" \/ payload.items]

DoWebhook ==
    /\ \E source \in Sources : \E payload \in Payloads : \E arg \in ThresholdArgs :
        call' = [last |-> WebhookRun(source, payload, arg), prev |-> NoApplied]
    /\ UNCHANGED <<toolVars, runVars, procVars, gh, pr, pdf>>

SpecWebhook == AllIdle /\ [][DoWebhook]_vars

\* ------------------------------------------ ApplicationLogAnalyzer._run

\* What the analyzer reads off a log, one observation per name:
\*   text                 log_content is a str ("yes") or not ("no")
\*   service .. kv_timestamp   the key=value key is there ("yes")
\*   line                 the key line, with a value int() converts ("int")
\*                        or not ("text")
\*   message, msg, error  the key, its value with one of config_keywords
\*                        ("config") or without ("plain")
\*   level                error_level_pattern matches at the start
\*   exception            the most special of the three exception patterns
\*                        that matches: nodejs_error_pattern matches only
\*                        where python_exception_pattern does, and that only
\*                        where java_exception_pattern does
\*   java_text, python_text, nodejs_text
\*                        group 2 of that pattern, stripped: "blank" (empty),
\*                        "config" (with a config keyword) or "plain"
\*   java_stack, python_traceback
\*                        the pattern matches ("yes"), and "huge" where the
\*                        line number of the frame taken has more digits
\*                        than int() converts
\*   nodejs_stack         "unnamed": the pattern matches and every frame is
\*                        without a function name; "yes", "huge": the first
\*                        frame with a name
\*   OutOfMemoryError .. TypeError_undefined   the words are in the log
\*                        (ImportError: that or ModuleNotFoundError)
\*   generic_error        the first of error_patterns that matches, by its
\*                        group 1, stripped and cut: "blank", "config", "plain"
\*   timestamp            one of timestamp_patterns matches
KeyFeatures ==
    {"service", "className", "methodName", "file", "errorType", "endpoint",
     "kv_timestamp", "level"}

RootKeyFeatures == {"message", "msg", "error"}

TextFeatures == {"java_text", "python_text", "nodejs_text"}

WordFeatures ==
    {"OutOfMemoryError", "NullPointerException", "ImportError", "ENOENT",
     "TypeError_undefined", "timestamp"}

Features ==
    {"text", "line", "exception", "java_stack", "python_traceback",
     "nodejs_stack", "generic_error"}
        \cup KeyFeatures \cup RootKeyFeatures \cup TextFeatures
        \cup WordFeatures

\* The str in which no pattern finds anything
PlainLog ==
    [k \in Features |->
        CASE k = "text" -> "yes"
          [] k \in TextFeatures -> "plain"
          [] OTHER -> "no"]

\* Every single thing the key=value scan and the level pattern can find
StructuredFindings ==
    {<<k, "yes">> : k \in KeyFeatures}
        \cup {<<"line", v>> : v \in {"int", "text"}}
        \cup (RootKeyFeatures \X {"plain", "config"})

\* Every single thing the other patterns can find
TraditionalFindings ==
    {<<k, "yes">> : k \in WordFeatures}
        \cup (TextFeatures \X {"blank", "config"})
        \cup {<<"exception", v>> : v \in {"java", "python", "nodejs"}}
        \cup (({"java_stack", "python_traceback"}) \X {"yes", "huge"})
        \cup {<<"nodejs_stack", v>> : v \in {"unnamed", "yes", "huge"}}
        \cup {<<"generic_error", v>> : v \in {"plain", "blank", "config"}}

\* The logs with at most n of the findings
RECURSIVE LogsUpTo(_, _)
LogsUpTo(findings, n) ==
    IF n = 0 THEN {PlainLog}
    ELSE LET fewer == LogsUpTo(findings, n - 1)
         IN  fewer \cup {[f EXCEPT ![c[1]] = c[2]] : f \in fewer, c \in findings}

\* The number of things found in the log f
Found(f) == Cardinality({k \in Features : f[k] # PlainLog[k]})

JavaMatches(f) == f["exception"] \in {"java", "python", "nodejs"}

PythonMatches(f) == f["exception"] \in {"python", "nodejs"}

NodejsMatches(f) == f["exception"] = "nodejs"

\* What the patterns allow together: 'XError: y' of the Node.js pattern is
\* matched by the first of error_patterns as well (re.IGNORECASE). Where the
\* group 1 of that one is blank, only colons and blanks follow the leftmost
\* 'error' of the log, which [:\s]+ takes but for a last blank: the message
\* of the Node.js pattern then has no word of the configuration keywords,
\* and is ':' where a colon follows its own ': '. A pattern that does not
\* match has no group 2.
Realizable(f) ==
    /\ NodejsMatches(f) => f["generic_error"] # "no"
    /\ (NodejsMatches(f) /\ f["generic_error"] = "blank")
         => f["nodejs_text"] # "config"
    /\ f["java_text"] # "plain" => JavaMatches(f)
    /\ f["python_text"] # "plain" => PythonMatches(f)
    /\ f["nodejs_text"] # "plain" => NodejsMatches(f)

\* The log_content that is no str: every pattern raises on it
NotStr == [PlainLog EXCEPT !["text"] = "no"]

\* The result dict of a strategy before anything is found
NoFields ==
    [service_name |-> "None", extracted_classname |-> "None",
     method_name |-> "None", line_number |-> "None", error_type |-> "None",
     endpoint |-> "None", timestamp |-> "None", file_path |-> "None",
     root_cause_summary |-> "None"]

\* a, with the fields of the record b set
With(a, b) == [k \in DOMAIN a |-> IF k \in DOMAIN b THEN b[k] ELSE a[k]]

\* group(n).strip() of a match: the empty str where the text is blank
Captured(group, text) == IF text = "blank" THEN "" ELSE group

\* not v, of a field of a strategy: None and the empty str
Unset(v) == v \in {"None", ""}

\* _analyze_structured_logs
AnalyzeStructured(f) ==
    IF f["text"] = "no" THEN NoFields
    ELSE
    LET kv == [k \in DOMAIN NoFields |->
                 CASE k = "service_name" /\ f["service"] = "yes" -> "kv.service"
                   [] k = "extracted_classname" /\ f["className"] = "yes" ->
                        "kv.className"
                   [] k = "method_name" /\ f["methodName"] = "yes" ->
                        "kv.methodName"
                   [] k = "file_path" /\ f["file"] = "yes" -> "kv.file"
                   [] k = "line_number" /\ f["line"] = "int" -> "kv.line"
                   [] k = "error_type" /\ f["errorType"] = "yes" -> "kv.errorType"
                   [] k = "endpoint" /\ f["endpoint"] = "yes" -> "kv.endpoint"
                   [] k = "timestamp" /\ f["kv_timestamp"] = "yes" ->
                        "kv.timestamp"
                   [] k = "root_cause_summary" /\ f["message"] # "no" ->
                        "kv.message"
                   [] k = "root_cause_summary" /\ f["message"] = "no"
                        /\ f["msg"] # "no" -> "kv.msg"
                   [] k = "root_cause_summary" /\ f["message"] = "no"
                        /\ f["msg"] = "no" /\ f["error"] # "no" -> "kv.error"
                   [] OTHER -> "None"]
    IN  IF f["level"] = "yes" /\ Unset(kv.error_type)
        THEN [kv EXCEPT !.error_type = "level"]
        ELSE kv

\* _has_substantial_data
HasSubstantialData(analysis) ==
    Cardinality({k \in {"service_name", "extracted_classname",
                        "method_name", "error_type"} :
                    analysis[k] # "None"}) >= 2

\* _analyze_java_logs: the exception line, the topmost stack frame, then the
\* two words; int() of a huge line number raises after the class and the
\* method are set, and the except clause returns what is there.
AnalyzeJava(f) ==
    IF f["text"] = "no" THEN NoFields
    ELSE
    LET e == IF JavaMatches(f)
             THEN With(NoFields,
                       [extracted_classname |-> "java_exception.1",
                        error_type |-> "java_exception",
                        root_cause_summary |->
                            Captured("java_exception.2", f["java_text"])])
             ELSE NoFields
        named == With(e, [extracted_classname |->
                              IF Unset(e.extracted_classname)
                              THEN "java_stack.1" ELSE e.extracted_classname,
                          method_name |-> "java_stack.2"])
        s == IF f["java_stack"] = "yes"
             THEN With(named, [line_number |-> "java_stack.4",
                               file_path |-> "java_stack.3"])
             ELSE e
    IN  CASE f["java_stack"] = "huge" -> named
          [] f["java_stack"] # "huge" /\ f["OutOfMemoryError"] = "yes" ->
                With(s, [error_type |-> "java_memory_error",
                         root_cause_summary |-> "Java heap space exhausted"])
          [] f["java_stack"] # "huge" /\ f["OutOfMemoryError"] = "no"
                /\ f["NullPointerException"] = "yes" ->
                With(s, [error_type |-> "java_null_pointer",
                         root_cause_summary |->
                            IF Unset(s.root_cause_summary)
                            THEN "Null reference access"
                            ELSE s.root_cause_summary])
          [] OTHER -> s

\* _analyze_python_logs: the last frame of the traceback, the exception
\* line, then the import words
AnalyzePython(f) ==
    IF f["text"] = "no" THEN NoFields
    ELSE
    LET named == With(NoFields, [method_name |-> "python_traceback.3"])
        t == IF f["python_traceback"] = "yes"
             THEN With(named, [line_number |-> "python_traceback.2",
                               file_path |-> "python_traceback.1"])
             ELSE NoFields
        e == IF PythonMatches(f)
             THEN With(t, [extracted_classname |-> "python_exception.1",
                           error_type |-> "python_exception",
                           root_cause_summary |->
                               Captured("python_exception.2", f["python_text"])])
             ELSE t
    IN  CASE f["python_traceback"] = "huge" -> named
          [] f["python_traceback"] # "huge" /\ f["ImportError"] = "yes" ->
                With(e, [error_type |-> "python_import_error",
                         root_cause_summary |->
                            IF Unset(e.root_cause_summary)
                            THEN "Missing module or import issue"
                            ELSE e.root_cause_summary])
          [] OTHER -> e

\* _analyze_nodejs_logs: the error line, the first stack frame that names
\* its function, then the words
AnalyzeNodejs(f) ==
    IF f["text"] = "no" THEN NoFields
    ELSE
    LET e == IF NodejsMatches(f)
             THEN With(NoFields,
                       [extracted_classname |-> "nodejs_error.1",
                        error_type |-> "nodejs_error",
                        root_cause_summary |->
                            Captured("nodejs_error.2", f["nodejs_text"])])
             ELSE NoFields
        named == With(e, [method_name |-> "nodejs_stack.1"])
        s == IF f["nodejs_stack"] = "yes"
             THEN With(named, [line_number |-> "nodejs_stack.3",
                               file_path |-> "nodejs_stack.2"])
             ELSE e
    IN  CASE f["nodejs_stack"] = "huge" -> named
          [] f["nodejs_stack"] # "huge" /\ f["ENOENT"] = "yes" ->
                With(s, [error_type |-> "nodejs_file_not_found",
                         root_cause_summary |->
                            IF Unset(s.root_cause_summary)
                            THEN "File or directory not found"
                            ELSE s.root_cause_summary])
          [] f["nodejs_stack"] # "huge" /\ f["ENOENT"] = "no"
                /\ f["TypeError_undefined"] = "yes" ->
                With(s, [error_type |-> "nodejs_undefined_reference",
                         root_cause_summary |->
                            IF Unset(s.root_cause_summary)
                            THEN "Undefined variable or property access"
                            ELSE s.root_cause_summary])
          [] OTHER -> s

\* _analyze_generic_logs: the error patterns; class_method_pattern after
\* them does not compile (its last group is never closed), re.search raises
\* on every str, and the except clause returns what the error patterns set:
\* no class, no method and no line number ever.
AnalyzeGeneric(f) ==
    IF f["text"] = "yes" /\ f["generic_error"] # "no"
    THEN With(NoFields, [error_type |-> "generic_error",
                         root_cause_summary |->
                             Captured("generic_error.1", f["generic_error"])])
    ELSE NoFields

\* The strategies whose body raises into its except clause on the log f
Raising(f) ==
    {"generic"}
        \cup (IF f["text"] = "no"
              THEN {"structured", "java", "python", "nodejs"} ELSE {})
        \cup (IF f["java_stack"] = "huge" THEN {"java"} ELSE {})
        \cup (IF f["python_traceback"] = "huge" THEN {"python"} ELSE {})
        \cup (IF f["nodejs_stack"] = "huge" THEN {"nodejs"} ELSE {})

\* analyses, by name, in the order of the list
Strategies == <<"java", "python", "nodejs", "generic">>

\* sum(1 for v in x.values() if v is not None)
NonNull(x) == Cardinality({k \in DOMAIN x : x[k] # "None"})

\* The last analysis with the greatest count
LastBest(analyses) ==
    LET i == CHOOSE j \in 1..Len(analyses) :
                /\ \A l \in 1..Len(analyses) :
                      NonNull(analyses[l]) <= NonNull(analyses[j])
                /\ \A l \in (j + 1)..Len(analyses) :
                      NonNull(analyses[l]) < NonNull(analyses[j])
    IN  [index |-> i, fields |-> analyses[i]]

\* max(analyses, key=...): the first analysis with the greatest count
Best(analyses) ==
    LET i == CHOOSE j \in 1..Len(analyses) :
                /\ \A l \in 1..Len(analyses) :
                      NonNull(analyses[l]) <= NonNull(analyses[j])
                /\ \A l \in 1..(j - 1) :
                      NonNull(analyses[l]) < NonNull(analyses[j])
    IN  [index |-> i, fields |-> analyses[i]]

\* The root causes the strategies write themselves, each with the first of
\* config_keywords that is in it ("" for none)
FixedRootCauses ==
    [root_cause \in {"Java heap space exhausted", "Null reference access",
                     "Missing module or import issue",
                     "File or directory not found",
                     "Undefined variable or property access"} |->
        CASE root_cause = "Null reference access" -> "access"
          [] root_cause = "Missing module or import issue" -> "port"
          [] root_cause = "File or directory not found" -> "directory"
          [] root_cause = "Undefined variable or property access" -> "property"
          [] OTHER -> ""]

\* any(keyword in root_cause for keyword in config_keywords)
HasConfigKeyword(root_cause, f) ==
    CASE root_cause \in DOMAIN FixedRootCauses ->
            FixedRootCauses[root_cause] # ""
      [] root_cause = "kv.message" -> f["message"] = "config"
      [] root_cause = "kv.msg" -> f["msg"] = "config"
      [] root_cause = "kv.error" -> f["error"] = "config"
      [] root_cause = "java_exception.2" -> f["java_text"] = "config"
      [] root_cause = "python_exception.2" -> f["python_text"] = "config"
      [] root_cause = "nodejs_error.2" -> f["nodejs_text"] = "config"
      [] root_cause = "generic_error.1" -> f["generic_error"] = "config"
      [] OTHER -> FALSE

\* _determine_fix_type: a root cause of None has no lower(), and the
\* except clause makes it "code"; the test of code_error_types decides
\* nothing, both of its branches returning "code".
DetermineFixType(result, f) ==
    IF result.root_cause_summary = "None" THEN "code"
    ELSE IF HasConfigKeyword(result.root_cause_summary, f) THEN "configuration"
    ELSE "code"

\* _run of the log analyzer
AnalyzerRun(f) ==
    LET structured == AnalyzeStructured(f)
        best == Best(<<AnalyzeJava(f), AnalyzePython(f),
                       AnalyzeNodejs(f), AnalyzeGeneric(f)>>)
        chosen == IF HasSubstantialData(structured) THEN structured
                  ELSE best.fields
        result == IF Unset(chosen.timestamp) /\ f["timestamp"] = "yes"
                  THEN [chosen EXCEPT !.timestamp = "timestamp.0"]
                  ELSE chosen
    IN  [tool |-> "application_log_analyzer", raised |-> FALSE,
         fields |-> result,
         log_format |-> IF HasSubstantialData(structured)
                        THEN "structured" ELSE "traditional",
         candidate |-> IF HasSubstantialData(structured) THEN 0 ELSE best.index,
         suggested_fix_type |-> DetermineFixType(result, f)]

\* A log is handed to the analyzer: no str, or a str with at most
\* MaxFeatures findings, n of them of the key=value scan.
InitLogs ==
    /\ ToolIdle /\ NoRequest /\ NoFlow /\ NoReports
    /\ \E n \in 0..MaxFeatures :
        \E s \in {l \in LogsUpTo(StructuredFindings, n) : Found(l) = n} :
        \E t \in LogsUpTo(TraditionalFindings, MaxFeatures - n) \cup {NotStr} :
            LET f == [k \in Features |->
                        IF s[k] # PlainLog[k] THEN s[k] ELSE t[k]]
            IN  /\ Realizable(f)
                /\ f["text"] = "no" => f = NotStr
                /\ call = [last |-> NoApplied,
                           prev |-> [tool |-> "log", log |-> f]]

DoAnalyze ==
    /\ call.last.tool = "none"
    /\ call.prev.tool = "log"
    /\ call' = [call EXCEPT !.last = AnalyzerRun(call.prev.log)]
    /\ UNCHANGED <<toolVars, runVars, procVars, gh, pr, pdf>>

SpecLogs == InitLogs /\ [][DoAnalyze]_vars

\* --------------------- IncidentRetrospectiveGenerator._generate_timeline

\* Values of a timestamp field: None, "", "10", "2"
Stamps == {None, <<>>, <<"1", "0">>, <<"2">>}

\* The arguments of _generate_timeline: the three timestamps of
\* incident_data, pr_details (None, or its created_at and merged_at) and
\* confluence_details (None, or its created_at).
Retrospectives ==
    {d \in [created_at : Stamps, first_response_at : Stamps,
            resolved_at : Stamps, pr_details : BOOLEAN, pr_created_at : Stamps,
            pr_merged_at : Stamps, confluence_details : BOOLEAN,
            doc_created_at : Stamps] :
        /\ ~d.pr_details => (d.pr_created_at = None /\ d.pr_merged_at = None)
        /\ ~d.confluence_details => d.doc_created_at = None}

\* The timeline before it is sorted, in the order of the appends
TimelineEvents(d) ==
    LET Event(given, stamp, name) ==
            IF given /\ ~Falsy(stamp)
            THEN <<[timestamp |-> stamp, event |-> name]>> ELSE <<>>
    IN  Event(TRUE, d.created_at, "Incident Created")
        \o Event(TRUE, d.first_response_at, "First Response")
        \o Event(d.pr_details, d.pr_created_at, "Fix PR Created")
        \o Event(d.pr_details, d.pr_merged_at, "Fix PR Merged")
        \o Event(d.confluence_details, d.doc_created_at, "Documentation Created")
        \o Event(TRUE, d.resolved_at, "Incident Resolved")

RECURSIVE InsertAsc(_, _)
\* x put into the ascending list l behind every element whose timestamp is
\* not greater than x's
InsertAsc(l, x) ==
    IF l = <<>> THEN <<x>>
    ELSE IF StrLess(x.timestamp, Head(l).timestamp) THEN <<x>> \o l
    ELSE <<Head(l)>> \o InsertAsc(Tail(l), x)

\* The timeline left in the order of the appends
AppendOrder(acc, rest) == acc \o rest

RECURSIVE SortedAsc(_, _)
\* timeline.sort(key=timestamp): stable, equal keys stay in append order
SortedAsc(acc, rest) ==
    IF rest = <<>> THEN acc
    ELSE SortedAsc(InsertAsc(acc, Head(rest)), Tail(rest))

\* _generate_timeline
GenerateTimeline(d) ==
    [tool |-> "incident_retrospective_generator",
     timeline |-> SortedAsc(<<>>, TimelineEvents(d))]

\* The details of an incident are handed to the generator.
InitTimeline ==
    /\ ToolIdle /\ NoRequest /\ NoFlow /\ NoReports
    /\ \E d \in Retrospectives :
        call = [last |-> NoApplied, prev |-> [tool |-> "details", details |-> d]]

DoTimeline ==
    /\ call.last.tool = "none"
    /\ call.prev.tool = "details"
    /\ call' = [call EXCEPT !.last = GenerateTimeline(call.prev.details)]
    /\ UNCHANGED <<toolVars, runVars, procVars, gh, pr, pdf>>

SpecTimeline == InitTimeline /\ [][DoTimeline]_vars

\* ================================================================ claims

\* The dict a handler works on: the stored dict after the lazy load.
Loaded == EnsureDataLoaded(store, file)

AllNone(req) == \A i \in 1..Len(UpdatableFields) : req[UpdatableFields[i]] = None

\* C1: an update of an existing incident with every field None returns the
\* no-fields error and changes neither the dict (last_updated included) nor
\* the mirror file.
C1_NoOpUpdateChangesNothing ==
    [][(last'.op = "update" /\ AllNone(last'.req) /\ Has(Loaded, last'.key))
        => (/\ ~last'.success
            /\ last'.error = "no_fields"
            /\ store' = Loaded
            /\ file' = file)]_vars

\* C2: a successful create with service name, severity and status given,
\* followed at once by a read of the ID it returned, reads a record with these
\* three values and with created_at equal to last_updated.
C2_CreateThenRead ==
    (/\ prev.op = "create" /\ prev.success
     /\ ~Falsy(prev.req.severity) /\ ~Falsy(prev.req.status)
     /\ last.op = "read" /\ last.req.incident_id = prev.key)
    => (/\ last.success
        /\ last.data[1].service_name = prev.req.service_name
        /\ last.data[1].severity = prev.req.severity
        /\ last.data[1].status = prev.req.status
        /\ last.data[1].created_at = last.data[1].last_updated)

\* The request update(id, {status: "Resolved"})
IsStatusResolved(req) == req = [StatusResolved EXCEPT !.incident_id = req.incident_id]

\* This step is a read that follows at once a successful update, of the same
\* ID, of only the status to Resolved.
UpdateResolvedThenRead ==
    /\ last.op = "update" /\ last.success /\ IsStatusResolved(last.req)
    /\ last'.op = "read" /\ last'.req.incident_id = last.key

\* The record read has status Resolved and otherwise, last_updated apart, the
\* fields of the record before the update; no other entry of the dict changed.
UpdateResolvedFrame ==
    LET old == Get(last.before, last.key)
        new == last'.data[1]
    IN  /\ last'.success
        /\ new.status = Resolved
        /\ \A f \in Fields \ {"status", "last_updated"} : new[f] = old[f]
        /\ store' = Put(last.before, last.key, new)

\* C3 as stated: update(id, {status: Resolved}) then read(id) shows status
\* Resolved, a last_updated strictly greater than before the update, and
\* every other field and every other record unchanged.
C3_UpdateResolvedStrictlyLater ==
    [][UpdateResolvedThenRead
        => (/\ UpdateResolvedFrame
            /\ StrLess(Get(last.before, last.key).last_updated,
                       last'.data[1].last_updated))]_vars

\* C3 amended: update(id, {status: Resolved}) then read(id) shows status
\* Resolved and a last_updated that is the clock reading of the update, not
\* less than the value before the update (equal to it when the clock has not
\* moved since that value was taken), and every other field and every other
\* record unchanged.
C3_UpdateResolvedStamped ==
    [][UpdateResolvedThenRead
        => (/\ UpdateResolvedFrame
            /\ last'.data[1].last_updated = IsoFormat(now)
            /\ ~StrLess(last'.data[1].last_updated,
                        Get(last.before, last.key).last_updated))]_vars

\* A record that was Open has been updated to Resolved at a later clock
\* reading than its last_updated and read back, with a second record stored.
C3_Witness ==
    /\ prev.op = "update" /\ prev.success /\ IsStatusResolved(prev.req)
    /\ last.op = "read" /\ last.req.incident_id = prev.key
    /\ last.success
    /\ last.data[1].status = Resolved
    /\ last.data[1].last_updated = IsoFormat(now)
    /\ StrLess(last.data[1].created_at, last.data[1].last_updated)
    /\ Len(store) = 2

\* C4: two successful creates that both have their ID generated (none given,
\* or a malformed one), one right after the other, are stored under two
\* distinct IDs, and the second adds a record to the dict.
C4_GeneratedIdsDistinct ==
    (/\ prev.op = "create" /\ prev.success /\ GeneratesId(prev.req)
     /\ last.op = "create" /\ last.success /\ GeneratesId(last.req))
    => (/\ last.key # prev.key
        /\ Len(store) = Len(last.before) + 1)

Mutating == {"create", "update", "delete"}

\* C5: after every create, update or delete that returns success the mirror
\* file is the JSON document of the whole dict: same keys, same records.
C5_FileEqualsMemory ==
    (last.op \in Mutating /\ last.success)
    => (file.kind = "json" /\ ParseDoc(file.doc) = store)

\* C6 as stated: the file is loaded at the first access of a process only;
\* no call after the first one reads it into the dict again; a missing file
\* at the first access gives an empty dict and no error.
C6_LoadedOnFirstAccessOnly ==
    [][last'.op # "none"
        => (/\ last.op # "none" => last'.load # "read"
            /\ (last.op = "none" /\ file = NoFile)
                => (/\ last'.before = <<>>
                    /\ last'.op = "list" => last'.success))]_vars

\* C6 amended: the file is loaded at the start of every call that finds the
\* dict empty, the first call of a process or a later one, and of no call
\* that finds it non-empty; a missing file gives an empty dict and no error.
C6_LoadedWheneverEmpty ==
    [][last'.op # "none"
        => (/\ last.op = "none" => store = <<>>
            /\ store # <<>> => (last'.load = "none" /\ last'.before = store)
            /\ store = <<>>
                => (/\ last'.load # "none"
                    /\ last'.before = IF file.kind = "json"
                                      THEN ParseDoc(file.doc) ELSE <<>>)
            /\ (store = <<>> /\ file = NoFile)
                => (/\ last'.load = "missing"
                    /\ last'.before = <<>>
                    /\ last'.op = "list" => last'.success))]_vars

\* A call that is not the first of its process has loaded the file, because
\* the delete before it had emptied the dict.
C6_Witness ==
    /\ prev.op = "delete" /\ prev.success
    /\ last.op = "list" /\ last.success
    /\ last.load = "read"

\* C7: delete of an existing incident returns the record it removes, and a
\* read of that ID right after it returns not-found with an
\* available_incidents list that does not contain the ID.
C7_DeleteThenRead ==
    /\ (/\ last.op = "delete" /\ ~Falsy(last.req.incident_id)
        /\ Has(last.before, last.req.incident_id))
       => (/\ last.success
           /\ last.data = <<Get(last.before, last.req.incident_id)>>
           /\ ~Has(store, last.req.incident_id))
    /\ (/\ prev.op = "delete" /\ prev.success
        /\ last.op = "read" /\ last.req.incident_id = prev.key)
       => (/\ ~last.success
           /\ last.error = "not_found"
           /\ \A i \in 1..Len(last.ids) : last.ids[i] # prev.key)

\* An incident has been deleted and then read, with another one left to list
\* as available.
C7_Witness ==
    /\ prev.op = "delete" /\ prev.success
    /\ last.op = "read" /\ last.req.incident_id = prev.key
    /\ last.error = "not_found"
    /\ last.ids # <<>>

\* C8: an update leaves the created_at of every record of the dict as it
\* was, the updated record's included.
C8_UpdateKeepsCreatedAt ==
    last.op = "update"
    => \A i \in 1..Len(last.before) :
        /\ Has(store, last.before[i].key)
        /\ Get(store, last.before[i].key).created_at
            = last.before[i].rec.created_at

\* Two updates of one incident in a row, both successful, the second at a
\* later clock reading than the creation.
C8_Witness ==
    /\ prev.op = "update" /\ prev.success
    /\ last.op = "update" /\ last.success /\ last.key = prev.key
    /\ StrLess(Get(store, last.key).created_at,
               Get(store, last.key).last_updated)

\* The five arguments create stores as given
StoredAsGiven ==
    {"commander", "communication_lead", "playbook_applied", "timeline",
     "resolution_details"}

\* C9: a create with a well-formed ID that is in the dict already succeeds and
\* replaces the record: the dict keeps its keys, the other records stay, and
\* the new record has the arguments given, the defaults for severity and
\* status and None for the other arguments not given.
C9_CreateExistingOverwrites ==
    (/\ last.op = "create"
     /\ ~Falsy(last.req.incident_id) /\ MatchesIdFormat(last.req.incident_id)
     /\ ~Falsy(last.req.service_name)
     /\ Has(last.before, last.req.incident_id))
    => LET id == last.req.incident_id
           rec == Get(store, id)
       IN  /\ last.success /\ last.key = id
           /\ Keys(store) = Keys(last.before)
           /\ \A i \in 1..Len(store) :
                store[i].key # id => store[i] = last.before[i]
           /\ rec = last.data[1]
           /\ rec.incident_id = id
           /\ rec.service_name = last.req.service_name
           /\ rec.severity = IF Falsy(last.req.severity) THEN Medium
                             ELSE last.req.severity
           /\ rec.status = IF Falsy(last.req.status) THEN Open
                           ELSE last.req.status
           /\ ~Falsy(last.req.timestamp) => rec.timestamp = last.req.timestamp
           /\ \A f \in StoredAsGiven : rec[f] = last.req[f]

\* A create with only the ID and the service name has replaced a record that
\* had a severity and a timeline of its own.
C9_Witness ==
    /\ last.op = "create" /\ last.success /\ last.req = SparseCreate
    /\ Has(last.before, Inc1000)
    /\ Get(last.before, Inc1000).severity = High
    /\ Get(last.before, Inc1000).timeline # None
    /\ Get(store, Inc1000).severity = Medium
    /\ Get(store, Inc1000).timeline = None
    /\ Len(store) = 2

\* C10: every record of the dict has a service_name that is not None, and a
\* create without service_name fails and leaves the dict (as loaded) and the
\* mirror file as they were.
C10_ServiceNameRequired ==
    [][/\ \A i \in 1..Len(store') : store'[i].rec.service_name # None
       /\ (last'.op = "create" /\ Falsy(last'.req.service_name))
          => (/\ ~last'.success
              /\ last'.error = "service_name_required"
              /\ store' = Loaded
              /\ file' = file)]_vars

\* A create without service_name has failed with records in the dict and in
\* the mirror file.
C10_Witness ==
    /\ last.op = "create" /\ last.req.service_name = None
    /\ ~last.success
    /\ store # <<>>
    /\ file.kind = "json" /\ file.doc # <<>>

Targeted == {"read", "update", "delete"}

\* C11: a read, update or delete of an ID that is not in the dict fails with
\* the not-found error, its available_incidents are exactly the keys of the
\* dict, and the dict (as loaded) and the mirror file stay as they were.
C11_NotFoundListsKeys ==
    [][(/\ last'.op \in Targeted
        /\ ~Falsy(last'.req.incident_id)
        /\ ~Has(Loaded, last'.req.incident_id))
       => (/\ ~last'.success
           /\ last'.error = "not_found"
           /\ Len(last'.ids) = Len(store')
           /\ \A i \in 1..Len(store') : last'.ids[i] = store'[i].key
           /\ store' = Loaded
           /\ file' = file)]_vars

\* An update of an absent ID has failed while another incident was stored.
C11_Witness ==
    /\ last.op = "update" /\ last.error = "not_found"
    /\ Len(last.ids) = 1 /\ last.ids[1] # last.req.incident_id
    /\ Len(store) = 1

\* C12: list succeeds and returns every record of the dict exactly once,
\* never a record before one with a greater created_at; on an empty dict it
\* returns the empty list.
C12_ListSortedDescending ==
    last.op = "list"
    => (/\ last.success
        /\ Len(last.data) = Len(store)
        /\ \A i \in 1..Len(store) :
            \E j \in 1..Len(last.data) : last.data[j] = store[i].rec
        /\ \A i \in 1..Len(last.data) : \A j \in (i + 1)..Len(last.data) :
            ~StrLess(last.data[i].created_at, last.data[j].created_at)
        /\ store = <<>> => last.data = <<>>)

\* Two records with different created_at have been listed, the later one
\* first although it is the second of the dict.
C12_Witness ==
    /\ last.op = "list" /\ Len(last.data) = 2
    /\ StrLess(last.data[2].created_at, last.data[1].created_at)
    /\ last.data[1] = store[2].rec

\* C13: the dict written to the mirror file and loaded from it into an empty
\* dict is the same dict, key for key and field for field.
C13_SaveLoadRoundTrip == LoadFromFile(<<>>, SaveToFile(store)) = store

\* C14: at most one thread runs the pipeline at a time, and it is the holder
\* of crew_lock; a tool call of one run follows a tool call of another run
\* only when that other run has ended.
C14_OneRunAtATime ==
    /\ \A t \in Threads : \A u \in Threads :
        (pc[t] = "running" /\ pc[u] = "running") => t = u
    /\ \A t \in Threads : pc[t] = "running" => lock = t
    /\ \A i \in 1..(Len(log) - 1) :
        log[i].run # log[i + 1].run => pc[log[i].run] \in {"done", "failed"}

\* The webhook's run has made a tool call while /run and a cli run are
\* waiting for the lock.
C14_Witness ==
    /\ pc["hook"] = "running" /\ pc["run"] = "queued" /\ pc["cli"] = "queued"
    /\ log # <<>> /\ log[Len(log)].run = "hook"

RECURSIVE Replay(_, _)
\* The dict m after the successful mutations of the calls l, in their order:
\* a create or update stores the record it returned under its key, a delete
\* removes its key.
Replay(m, l) ==
    IF l = <<>> THEN m
    ELSE IF ~(Head(l).success /\ Head(l).op \in Mutating)
    THEN Replay(m, Tail(l))
    ELSE IF Head(l).op = "delete"
    THEN Replay(SelectSeq(m, LAMBDA e : e.key # Head(l).key), Tail(l))
    ELSE Replay(Put(m, Head(l).key, Head(l).data[1]), Tail(l))

AllFinished == \A t \in Threads : pc[t] \in {"done", "failed"}

\* C15: when all runs have ended, the dict and the mirror file hold the result
\* of every successful create, update and delete of every run, applied in
\* the order in which the runs held the lock.
C15_EveryMutationReflected ==
    (AllFinished /\ \E i \in 1..Len(log) :
                        log[i].success /\ log[i].op \in Mutating)
    => (/\ store = Replay(<<>>, log)
        /\ file.kind = "json"
        /\ ParseDoc(file.doc) = Replay(<<>>, log))

\* C17: a webhook request that was accepted gets its pipeline run started,
\* given that every run ends; and a run that raises leaves the lock free for
\* the threads waiting behind it.
C17_AcceptedWebhookRuns ==
    /\ (pc["hook"] = "queued") ~> (pc["hook"] = "running")
    /\ [][\A t \in Threads :
            (pc[t] = "running" /\ pc'[t] = "failed") => lock' = "free"]_vars

\* The webhook's run executes after the /run request's run has raised, with
\* the cli run still waiting.
C17_Witness ==
    pc["hook"] = "running" /\ pc["run"] = "failed" /\ pc["cli"] = "queued"

\* The keys of the mirror file
FileKeys(f) == IF f.kind = "json" THEN {f.doc[i].key : i \in 1..Len(f.doc)} ELSE {}

\* C16: a call of a process whose dict is not empty starts from that dict,
\* not from the file, and a successful mutation returns with success after
\* writing the dict of its own process from the start of the file: the file
\* is then that dict alone where it held no more bytes than the document
\* written, and no JSON document where it held more (the other process wrote
\* a longer document after this one had opened the file). Either way nothing
\* the other process had written can be read from it.
C16_LastWriterSnapshotWins ==
    [][/\ (steps' # steps /\ store # <<>>) => last'.before = store
       /\ (/\ Len(log') > Len(log)
           /\ log'[Len(log')].op \in Mutating /\ log'[Len(log')].success)
          => (/\ file'.kind = "json"
                    <=> file.size - file.blanks <= Written(store').n
              /\ file'.kind = "json" => ParseDoc(file'.doc) = store'
              /\ file'.kind # "json"
                    => (file'.kind = "corrupt" /\ file'.size = file.size))]_vars

\* Process 1 was suspended in its create before _save_to_file, process 2
\* created INC-1000 meanwhile, and process 1 then wrote the file: both creates
\* returned success, each dict holds its own incident, the file only INC-0.
C16_Witness ==
    /\ Len(log) = 2 /\ log[1].success /\ log[2].success
    /\ log[1].run = "p2" /\ log[1].key = Inc1000
    /\ log[2].run = "p1" /\ log[2].key = Inc0
    /\ FileKeys(file) = {Inc0}
    /\ cur = "p1" /\ Keys(store) = <<Inc0>> /\ Keys(other) = <<Inc1000>>

Transport == {"timeout", "connection"}

\* C18: a call makes at most max_retries requests; every request but the
\* last one made ended in a timeout or a connection error and was followed
\* by a sleep of one second; a response, whatever its status, is returned by
\* the attempt that received it; a timeout or connection error at the last
\* attempt, or any other request exception, returns an error and no response.
C18_BoundedTransportRetries ==
    gh.state # "none"
    => LET n == Len(gh.trace)
       IN  /\ n <= gh.max
           /\ \A i \in 1..(n - 1) : gh.trace[i].kind \in Transport
           /\ gh.state = "running"
                => (/\ gh.slept = n
                    /\ n > 0 => (n < gh.max /\ gh.trace[n].kind \in Transport))
           /\ gh.state = "returned"
                => (/\ gh.slept = IF n = 0 THEN 0 ELSE n - 1
                    /\ (n > 0 /\ gh.trace[n].kind = "response")
                         => (gh.response = gh.trace[n].status /\ gh.error = "")
                    /\ (n > 0 /\ gh.trace[n].kind \in Transport)
                         => (n = gh.max /\ gh.response = 0 /\ gh.error # "")
                    /\ (n > 0 /\ gh.trace[n].kind = "other")
                         => (gh.response = 0 /\ gh.error # "")
                    /\ n = 0 => (gh.response = 0 /\ gh.error # ""))

\* A call with max_retries = 3 has returned the 500 response of its third
\* request, after a timeout and a connection error and two sleeps.
C18_Witness ==
    /\ gh.state = "returned" /\ gh.max = 3
    /\ Len(gh.trace) = 3
    /\ gh.trace[1].kind = "timeout" /\ gh.trace[2].kind = "connection"
    /\ gh.trace[3].kind = "response"
    /\ gh.response = 500 /\ gh.slept = 2

\* The external steps the budget is to stop
Guarded == {"branch", "lookup", "commit", "pull"}

\* C19: no branch creation, file lookup, file commit or pull-request
\* creation is started after more than three minutes have passed since the
\* flow began.
C19_NoStepAfterBudget ==
    pr.state # "none"
    => \A i \in 1..Len(pr.started) :
         pr.started[i].step \in Guarded => pr.started[i].at <= MaxExecutionTime

\* C20: a request whose report path exists changes no file, succeeds and
\* reports the size of the existing file; no request changes a file that
\* existed before it; and however many requests are made, no report path is
\* written by more than one of them.
C20_ReportGeneratedOnce ==
    /\ [](\A p \in ReportPaths : pdf.written[p] <= 1)
    /\ [](pdf.last.existed
            => /\ pdf.last.success
               /\ pdf.last.message = "exists"
               /\ pdf.last.size = pdf.last.before
               /\ pdf.files[pdf.last.path] = pdf.last.before)
    /\ [][\A p \in ReportPaths :
            pdf.files[p] # Absent => pdf'.files[p] = pdf.files[p]]_vars

\* A second request for incident a:b found the report the first request
\* generated and skipped the generation.
C20_Witness ==
    /\ pdf.state = "ready"
    /\ pdf.last.existed
    /\ pdf.last.id = <<"a", ":", "b">>
    /\ pdf.written[pdf.last.path] = 1
    /\ pdf.last.message = "exists"
    /\ pdf.requests >= 2

\* C21: two calls of the file organizer with the same incident ID and file
\* type report the same path, and the path is the file type's filename
\* directly inside outputs/<incident ID with / \ : replaced by _>.
C21_ResolvedInsideSanitizedFolder ==
    call.last.tool = "file_organizer"
    => /\ (/\ call.prev.tool = "file_organizer"
           /\ call.prev.id = call.last.id
           /\ call.prev.kind = call.last.kind)
          => call.prev.path = call.last.path
       /\ Parent(call.last.path) = Outputs \o <<"/">> \o Clean(call.last.id)
       /\ call.last.path = Parent(call.last.path) \o <<"/">>
                             \o FileName(call.last.id, call.last.kind)

\* C22: what the pull-request tool returns, on success and on failure, is a
\* JSON object with a success key.
C22_ResultCarriesSuccessFlag ==
    pr.state = "returned" => "success" \in FlowResultKeys(pr.result)

\* The thresholds a call is to use: each default, replaced by the per-call
\* value where the call gives one
Effective(arg, k) ==
    IF arg.kind = "dict" /\ k \in DOMAIN arg.dict THEN arg.dict[k]
    ELSE DefaultThresholds[k]

\* C23: a successful normalization has severity P1 from critical up, else P2
\* from high up, else P3 from medium up, else P4, against the defaults
\* 90 / 70 / 50 overridden key by key by the call's thresholds, and asks for
\* an incident exactly when the severity is P1 or P2.
C23_SeverityByThresholds ==
    (call.last.tool = "webhook_alert_parser" /\ call.last.success)
    => LET r == call.last
           v == r.metric_value
       IN  /\ DefaultThresholds.critical = 90 /\ DefaultThresholds.high = 70
           /\ DefaultThresholds.medium = 50 /\ DefaultThresholds.low = 30
           /\ r.severity =
                IF v >= Effective(r.arg, "critical") THEN "P1"
                ELSE IF v >= Effective(r.arg, "high") THEN "P2"
                ELSE IF v >= Effective(r.arg, "medium") THEN "P3"
                ELSE "P4"
           /\ r.should_create_incident <=> r.severity \in {"P1", "P2"}

\* A Prometheus alert with value 60 and a per-call critical threshold of 60
\* was rated P1, below the default high threshold.
C23_Witness ==
    /\ call.last.tool = "webhook_alert_parser"
    /\ call.last.source = "prometheus"
    /\ call.last.arg.kind = "dict" /\ DOMAIN call.last.arg.dict = {"critical"}
    /\ call.last.metric_value = 60
    /\ call.last.severity = "P1"
    /\ call.last.should_create_incident

\* C24: a PagerDuty payload, and a Prometheus payload without an alert or
\* without a value annotation that is a number, is normalized with metric_value 0, and under
\* the default thresholds has severity P4 and asks for no incident, firing
\* or not.
C24_NoMetricMeansP4 ==
    LET r == call.last
    IN  (/\ r.tool = "webhook_alert_parser"
         /\ \/ r.source = "pagerduty"
            \/ /\ r.source = "prometheus"
               /\ ~r.payload.items \/ r.payload.value.kind # "num")
        => /\ r.success /\ r.metric_value = 0
           /\ (\A k \in DOMAIN DefaultThresholds :
                 Effective(r.arg, k) = DefaultThresholds[k])
              => (r.severity = "P4" /\ ~r.should_create_incident)

\* A PagerDuty payload with a triggered incident and a value field of 95 was
\* rated P4 under the default thresholds: threshold breached, no incident.
C24_Witness ==
    /\ call.last.tool = "webhook_alert_parser"
    /\ call.last.source = "pagerduty"
    /\ call.last.payload.items /\ call.last.payload.firing
    /\ call.last.payload.value = [kind |-> "num", num |-> 95]
    /\ call.last.arg.kind = "absent"
    /\ call.last.threshold_breached
    /\ call.last.severity = "P4" /\ ~call.last.should_create_incident

\* The result has the fields of the analysis a, but for a timestamp found
\* afterwards where a has none
Carries(r, a) ==
    \A k \in DOMAIN NoFields :
        (k # "timestamp" \/ a[k] # "None") => r.fields[k] = a[k]

\* C25: the result is 'structured' with the structured extraction's fields
\* exactly when that extraction has at least 2 of service_name,
\* extracted_classname, method_name, error_type; otherwise it is
\* 'traditional' with the fields of the first of the Java, Python, Node.js
\* and generic extractions that has the greatest count of non-null fields.
C25_StrategyDispatch ==
    call.last.tool = "application_log_analyzer"
    => LET r == call.last
           f == call.prev.log
           s == AnalyzeStructured(f)
           c == <<AnalyzeJava(f), AnalyzePython(f), AnalyzeNodejs(f),
                  AnalyzeGeneric(f)>>
           keys == {k \in {"service_name", "extracted_classname",
                           "method_name", "error_type"} : s[k] # "None"}
       IN  IF Cardinality(keys) >= 2
           THEN r.log_format = "structured" /\ Carries(r, s)
           ELSE /\ r.log_format = "traditional"
                /\ \E i \in 1..4 :
                     /\ r.candidate = i /\ Carries(r, c[i])
                     /\ \A l \in 1..4 : NonNull(c[l]) <= NonNull(c[i])
                     /\ \A l \in 1..(i - 1) : NonNull(c[l]) < NonNull(c[i])

\* A log with the one key service and an exception line that the Java and
\* the Python pattern both match: traditional, with the Java extraction.
C25_Witness ==
    /\ call.last.tool = "application_log_analyzer"
    /\ call.prev.log["service"] = "yes" /\ call.prev.log["level"] = "no"
    /\ call.prev.log["exception"] = "python"
    /\ NonNull(AnalyzeJava(call.prev.log)) = NonNull(AnalyzePython(call.prev.log))
    /\ call.last.log_format = "traditional"
    /\ call.last.candidate = 1
    /\ call.last.fields.extracted_classname = "java_exception.1"
    /\ call.last.fields.service_name = "None"

\* C26: whatever the log, the analyzer returns a classification with
\* suggested_fix_type 'code' or 'configuration' and log_format 'structured',
\* 'traditional' or 'error', 'error' only with error_type 'analysis_error'
\* and 'code'; and a strategy whose body raised contributes no field: where
\* the result is taken from it, the result has no field but a timestamp.
C26_AlwaysClassifies ==
    call.last.tool = "application_log_analyzer"
    => LET r == call.last
           failed == Raising(call.prev.log)
       IN  /\ ~r.raised
           /\ r.suggested_fix_type \in {"code", "configuration"}
           /\ r.log_format \in {"structured", "traditional", "error"}
           /\ r.log_format = "error"
                => (r.fields.error_type = "analysis_error"
                    /\ r.suggested_fix_type = "code")
           /\ (\/ r.candidate = 0 /\ "structured" \in failed
               \/ r.candidate # 0 /\ Strategies[r.candidate] \in failed)
                => Carries(r, NoFields)

\* The timestamp of each source of the details d, None where the dict that
\* holds it is not given
SourceStamps(d) ==
    [created |-> d.created_at, responded |-> d.first_response_at,
     pr_created |-> d.pr_created_at, pr_merged |-> d.pr_merged_at,
     documented |-> d.doc_created_at, resolved |-> d.resolved_at]

EventOf ==
    [created |-> "Incident Created", responded |-> "First Response",
     pr_created |-> "Fix PR Created", pr_merged |-> "Fix PR Merged",
     documented |-> "Documentation Created", resolved |-> "Incident Resolved"]

\* C27: the timeline has exactly one event for each source whose timestamp
\* is present, with that timestamp, none for a source whose timestamp is
\* None or empty, and no timestamp in it is less than the one before it.
C27_TimelineCompleteAndSorted ==
    call.last.tool = "incident_retrospective_generator"
    => LET t == call.last.timeline
           src == SourceStamps(call.prev.details)
       IN  /\ \A k \in DOMAIN src :
                 LET at == {i \in 1..Len(t) : t[i].event = EventOf[k]}
                 IN  IF Falsy(src[k]) THEN at = {}
                     ELSE /\ Cardinality(at) = 1
                          /\ \A i \in at : t[i].timestamp = src[k]
           /\ \A i \in 1..Len(t) : \E k \in DOMAIN src : t[i].event = EventOf[k]
           /\ \A i \in 1..(Len(t) - 1) : ~StrLess(t[i + 1].timestamp, t[i].timestamp)

\* An incident created at "2" and resolved at "10", with a first response
\* at "" and a PR merged at "2": three events, the resolution first.
C27_Witness ==
    /\ call.last.tool = "incident_retrospective_generator"
    /\ call.prev.details.created_at = <<"2">>
    /\ call.prev.details.first_response_at = <<>>
    /\ call.prev.details.resolved_at = <<"1", "0">>
    /\ call.prev.details.pr_merged_at = <<"2">>
    /\ Len(call.last.timeline) = 3
    /\ call.last.timeline[1].event = "Incident Resolved"
    /\ call.last.timeline[2].event = "Incident Created"
    /\ call.last.timeline[3].event = "Fix PR Merged"

\* "INC-" followed by the digits 0-9 of a count of milliseconds and nothing
\* else
IsIncidentId(s) ==
    /\ Len(s) >= 5
    /\ SubSeq(s, 1, 4) = INC
    /\ \A i \in 5..Len(s) : IsAsciiDigit(s[i])

\* C28: every key of the dict is INC-<digits> and is the incident_id of the
\* record under it; an ID given to create that is not INC-<digits> is not
\* among the keys.
C28_KeysAreIncidentIds ==
    \A i \in 1..Len(store) :
        /\ IsIncidentId(store[i].key)
        /\ store[i].rec.incident_id = store[i].key

\* C29: a record removed by a successful delete is in neither the dict nor
\* the mirror file the next call would load, and a key the next call would not
\* find comes back only by a successful create of that key; so after the last
\* record is deleted and the dict is empty, the load that the next read or
\* list makes finds nothing.
C29_DeletedStaysDeleted ==
    /\ []((last.op = "delete" /\ last.success) => ~Has(Loaded, last.key))
    /\ [][\A i \in 1..Len(Loaded') :
            ~Has(Loaded, Loaded'[i].key)
                => (last'.op = "create" /\ last'.success
                    /\ last'.key = Loaded'[i].key)]_vars

\* A delete has removed the last record and the read that follows it, whose
\* load-if-empty read the mirror file, does not find the incident.
C29_Witness ==
    /\ prev.op = "delete" /\ prev.success
    /\ last.op = "read" /\ last.key = prev.key
    /\ last.load = "read" /\ last.error = "not_found"
    /\ store = <<>>

\* The requests of a flow with n files that runs to its end, in order.
AllRequests(n) ==
    <<"user", "repo", "ref", "branch">>
        \o [i \in 1..(2 * n) |-> IF i % 2 = 1 THEN "lookup" ELSE "commit"]
        \o <<"pull">>

\* C30: the requests the flow has made are, in order, the first ones of
\* user, repo, base ref, branch, a lookup and a commit for each file, pull;
\* every request before the last one made was answered with a status the
\* flow accepts, and so was the last one while the flow still runs; the files counted as committed are those
\* whose commit succeeded; a success result comes after the whole sequence,
\* with every file committed; and a flow that has returned makes no request.
C30_OrderedAndStopsAtFirstFailure ==
    /\ [](pr.state # "none" =>
            /\ Len(pr.started) <= Len(AllRequests(pr.files))
            /\ \A i \in 1..Len(pr.started) :
                /\ pr.started[i].step = AllRequests(pr.files)[i]
                /\ (i < Len(pr.started) \/ pr.state = "running")
                    => pr.started[i].accepted
            /\ pr.committed =
                Cardinality({i \in 1..Len(pr.started) :
                    pr.started[i].step = "commit" /\ pr.started[i].accepted})
            /\ pr.result = "success" =>
                /\ Len(pr.started) = Len(AllRequests(pr.files))
                /\ pr.committed = pr.files
                /\ pr.files > 0)
    /\ [][pr.state = "returned" => pr'.started = pr.started]_vars

\* A flow with MaxFiles files has made every request and returned success.
C30_Witness ==
    /\ pr.state = "returned" /\ pr.result = "success"
    /\ pr.files = MaxFiles /\ pr.committed = MaxFiles
    /\ Len(pr.started) = 5 + 2 * MaxFiles

\* A flow has returned an error from the commit of its second file, after
\* the first file was committed, and has made no pull request.
C30_StoppedWitness ==
    /\ pr.state = "returned" /\ pr.result = "Error"
    /\ pr.committed = 1
    /\ Len(pr.started) = 8
    /\ pr.started[8].step = "commit" /\ ~pr.started[8].accepted

====
